---------------------------- MODULE Spec2Model ----------------------------
(***************************************************************************)
(* N-Sprite: the three-stage pipeline (Director -> Workers -> Architect)   *)
(* of services/geminiService.ts driven by the handlers of App.tsx.         *)
(*                                                                         *)
(* One action is one browser task: a click handler, or the arrival of a    *)
(* response of the reasoning service together with every continuation     *)
(* (micro-task) that runs before the next external await.                  *)
(***************************************************************************)
EXTENDS Integers, Sequences, FiniteSets, TLC

(***************************************************************************)
(* Bounds of the model                                                     *)
(***************************************************************************)
MaxUnits == 1          \* unit ids a Discovery response may name: 1..MaxUnits
MaxGeo == 2            \* distinct candidate geometries the service may propose
MaxDirectorRuns == 2   \* runDirectorOnly invocations in one behaviour
MaxWorkerRuns == 1     \* runWorkersOnly invocations in one behaviour
MaxArchitectRuns == 1  \* runArchitectOnly invocations in one behaviour
MaxRetryOps == 1       \* retry invocations (of any stage) in one behaviour
MaxImproves == 1       \* IMPROVE verdicts the service gives in one behaviour
MaxFailures == 1       \* calls the service fails in one behaviour
RetryUnits == 2        \* units of the manifest in SpecRetry and of the small run of SpecPool
PoolExtra == 1         \* units beyond one full batch in SpecPool
PoolWindow == 1        \* SpecPool: pending calls of a batch the service may answer next
LoopImproves == 3      \* SpecLoop: IMPROVE verdicts the service gives in one behaviour
MaxParts == 3          \* SpecPack: parts of the list to pack
MaxDim == 4            \* SpecPack: a bounding box is 1..MaxDim steps wide and high
DimStep == 5           \* SpecPack: pixels of one step
MaxKinParts == 4       \* SpecKin: parts of the list to validate
MaxReruns == 2         \* SpecRerun: runWorkersOnly invocations in one behaviour
MaxItems == 2          \* SpecShape: entries of a JSON array in a response
MaxPotParts == 3       \* SpecPot: parts given to packWithPotpack
MaxPotDim == 2         \* SpecPot: srcW and srcH range over 1..MaxPotDim
ClampUnit == 2         \* SpecClamp: the number 1 is ClampUnit multiples of 1 / ClampUnit
MaxClamp == 3          \* SpecClamp: bbox components range over -MaxClamp..MaxClamp multiples

(***************************************************************************)
(* Program constants                                                       *)
(***************************************************************************)
MAX_TURNS == 3
BATCH_SIZE == 8
BOX_PADDING == 16
MinSize == 10          \* Math.max(10, bounds.w)
PACK_ATTEMPTS == 10    \* for (let attempt = 0; attempt < 10; attempt++)
Base == 10000          \* base of the digits of a large natural number
AtlasResolutions == {1024, 2048}
PackingAlgorithms == {"row", "grid", "maxrects"}

(***************************************************************************)
(* Values                                                                  *)
(***************************************************************************)
Null == <<>>
Some(v) == <<v>>
IsNull(x) == x = <<>>
Val(x) == x[1]

Range(s) == {s[i] : i \in DOMAIN s}

Modes == {"fresh", "conversational"}
Failures == {"NoResponse", "Unparseable"}

Fields == {"directorOutput", "workerOutputs", "workerErrors", "architectOutput", "apiLogs"}

\* let debugData: PipelineDebugData = {...}
EmptyDebugData ==
    [directorOutput |-> Null, workerOutputs |-> <<>>, workerErrors |-> <<>>,
     architectOutput |-> Null, apiLogs |-> <<>>]

\* the four stage outputs of the record
Outputs(dd) ==
    [directorOutput |-> dd.directorOutput, workerOutputs |-> dd.workerOutputs,
     workerErrors |-> dd.workerErrors, architectOutput |-> dd.architectOutput]

VARIABLES
    debugData,   \* the module-level record of geminiService.ts
    uiData,      \* App's React state debugData: Null or [data, live, handed]
    app,         \* App's state: activeStep, isAnalyzing, error, analysisResults
    dir,         \* outstanding runDirector calls
    pool,        \* the outstanding runWorkersOnly invocation
    retry,       \* outstanding single-unit retries, by unit id
    arch,        \* outstanding runArchitect calls
    env,         \* the bounds in force and what is left of each
    ev,          \* the step just taken (history)
    atlas,       \* the atlas layout being prepared: Null or [parts, resolution, algorithm, rects]
    kin          \* the part list under validation: Null or [parts, issues]

vars == <<debugData, uiData, app, dir, pool, retry, arch, env, ev, atlas, kin>>

RECURSIVE AscendingSeqs(_)
\* the sequences of distinct ids taken from 1..n in ascending order
AscendingSeqs(n) ==
    IF n = 0 THEN {<<>>}
    ELSE AscendingSeqs(n - 1) \cup {Append(s, n) : s \in AscendingSeqs(n - 1)}

\* Manifests a Discovery response may carry (PartManifest[] with unique ids)
Manifests == AscendingSeqs(env.units)

\* Candidate geometries the service may propose
Geos == 1..env.geos

UnitIds == DOMAIN retry

(***************************************************************************)
(* The heap.  A snapshot {...debugData} shares its arrays with the record  *)
(* until the record gets a new array for that field.  `live` is the set of *)
(* fields of a snapshot whose array is still the record's array, and       *)
(* `handed` tells whether the observer was given the snapshot in the step  *)
(* just taken (history).                                                   *)
(***************************************************************************)
\* the heap as a handler finds it
Mem(dd, ui, ar) ==
    [dd |-> dd,
     ui |-> IF IsNull(ui) THEN ui ELSE Some([Val(ui) EXCEPT !.handed = FALSE]),
     arch |-> ar]

\* an in-place change of the array in field f (push, index assignment)
InPlace(M, f, new) ==
    [M EXCEPT
       !.dd[f] = new,
       !.ui = IF ~IsNull(M.ui) /\ f \in Val(M.ui).live
              THEN Some([Val(M.ui) EXCEPT !.data[f] = new])
              ELSE M.ui,
       !.arch = IF f = "workerOutputs"
                THEN [i \in DOMAIN M.arch |->
                        IF M.arch[i].geoLive
                        THEN [M.arch[i] EXCEPT !.geometries = new]
                        ELSE M.arch[i]]
                ELSE M.arch]

\* field f is assigned a new object
Replace(M, f, new) ==
    [M EXCEPT
       !.dd[f] = new,
       !.ui = IF ~IsNull(M.ui)
              THEN Some([Val(M.ui) EXCEPT !.live = @ \ {f}])
              ELSE M.ui,
       !.arch = IF f = "workerOutputs"
                THEN [i \in DOMAIN M.arch |-> [M.arch[i] EXCEPT !.geoLive = FALSE]]
                ELSE M.arch]

\* debugData = { directorOutput: null, workerOutputs: [], ... }
ResetRecord(M) ==
    [M EXCEPT
       !.dd = EmptyDebugData,
       !.ui = IF ~IsNull(M.ui) THEN Some([Val(M.ui) EXCEPT !.live = {}]) ELSE M.ui,
       !.arch = [i \in DOMAIN M.arch |-> [M.arch[i] EXCEPT !.geoLive = FALSE]]]

\* debugData = { ...existingDebugData }, existingDebugData being App's state
Adopt(M) ==
    [M EXCEPT
       !.dd = Val(M.ui).data,
       !.ui = Some([Val(M.ui) EXCEPT !.live = Fields]),
       !.arch = [i \in DOMAIN M.arch |->
                   [M.arch[i] EXCEPT !.geoLive = @ /\ "workerOutputs" \in Val(M.ui).live]]]

\* handleDebugUpdate: setDebugData(JSON.parse(JSON.stringify(data)))
handleDebugUpdate(M) ==
    [M EXCEPT !.ui = Some([data |-> M.dd, live |-> {}, handed |-> TRUE])]

\* setDebugData({ ...debugData })
setDebugData(M) ==
    [M EXCEPT !.ui = Some([data |-> M.dd, live |-> Fields, handed |-> TRUE])]

\* onDebug?.({ ...debugData }) with the callback the caller passed
onDebug(M, cb) ==
    IF cb = "handleDebugUpdate" THEN handleDebugUpdate(M)
    ELSE IF cb = "setDebugData" THEN setDebugData(M)
    ELSE M

(***************************************************************************)
(* callGemini                                                              *)
(***************************************************************************)
LogEntry(stage, output) == [stage |-> stage, output |-> output]

addApiLog(M, stage, output) ==
    InPlace(M, "apiLogs", Append(M.dd.apiLogs, LogEntry(stage, output)))

\* a call that returned a parseable payload: one entry (line 134)
callGemini_ok(M, stage) == addApiLog(M, stage, "response")

\* a call that failed: `No response` throws before line 134, an unparseable
\* text is logged at line 134 and again by the catch block
callGemini_fail(M, stage, failure) ==
    IF failure = "Unparseable"
    THEN addApiLog(addApiLog(M, stage, "response"), stage, "ERROR")
    ELSE addApiLog(M, stage, "ERROR")

(***************************************************************************)
(* History: the step just taken, and the outputs of the record when a      *)
(* stage-level invocation began                                            *)
(***************************************************************************)
NoOutputs == Outputs(EmptyDebugData)

Event(fn, mode, unit, outcome, pre) ==
    [fn |-> fn, mode |-> mode, unit |-> unit, outcome |-> outcome, pre |-> pre,
     manifest |-> <<>>]

EvNone == Event("none", "fresh", 0, "none", NoOutputs)

(***************************************************************************)
(* App.tsx state                                                           *)
(***************************************************************************)
initialState ==
    [activeStep |-> 0, isAnalyzing |-> FALSE, error |-> FALSE, analysisResults |-> Null]

\* React.useEffect on debugData?.architectOutput (lines 259-263)
SyncAnalysisResults(a, ui) ==
    IF ~IsNull(ui) /\ ~IsNull(Val(ui).data.architectOutput)
    THEN [a EXCEPT !.analysisResults = Val(ui).data.architectOutput]
    ELSE a

\* handleError (lines 96-104)
handleError(a) == [a EXCEPT !.isAnalyzing = FALSE, !.error = TRUE]

\* WorkersStep's retryingIds: the units whose single-unit retry is outstanding
RetryingIds == {k \in DOMAIN retry : ~IsNull(retry[k])}

RemoveAt(s, i) == SubSeq(s, 1, i - 1) \o SubSeq(s, i + 1, Len(s))

\* commit a heap and the App state as the next state
Commit(M, a) ==
    /\ debugData' = M.dd
    /\ uiData' = M.ui
    /\ arch' = M.arch
    /\ app' = SyncAnalysisResults(a, M.ui)

(***************************************************************************)
(* Stage 1: Director                                                       *)
(***************************************************************************)
\* the conversational branch keeping the extraction and assembly outputs
runDirector_store_keep(M, mode, result, cb) ==
    LET M1 == Replace(M, "directorOutput", Some(result))
        M2 == IF mode = "fresh"
              THEN Replace(Replace(Replace(M1, "workerOutputs", <<>>),
                                   "workerErrors", <<>>), "architectOutput", Null)
              ELSE M1
    IN onDebug(M2, cb)

\* runDirector after callGemini returned `result` (lines 238-252)
runDirector_store(M, mode, result, cb) ==
    LET M1 == Replace(M, "directorOutput", Some(result))
        M2 == IF mode = "fresh"
              THEN Replace(Replace(Replace(M1, "workerOutputs", <<>>),
                                   "workerErrors", <<>>), "architectOutput", Null)
              ELSE Replace(Replace(Replace(M1, "workerOutputs", <<>>),
                                   "workerErrors", <<>>), "architectOutput", Null)
    IN onDebug(M2, cb)

DirectorCall(fn, mode, cb, pre) == [fn |-> fn, mode |-> mode, cb |-> cb, pre |-> pre]

\* handleFileUpload (lines 53-82): a source image is chosen
Upload ==
    /\ app.activeStep = 0
    /\ app' = [app EXCEPT !.activeStep = 1, !.error = FALSE]
    /\ ev' = Event("handleFileUpload", "fresh", 0, "none", NoOutputs)
    /\ UNCHANGED <<debugData, uiData, dir, pool, retry, arch, env>>

\* the buttons that call handleRunDirector: `Start Magic Analysis` (step 1)
\* and `Retry` of DirectorStep
CanRunDirector ==
    /\ ~app.isAnalyzing
    /\ \/ app.activeStep = 1
       \/ /\ app.activeStep >= 2
          /\ ~IsNull(uiData)
          /\ ~IsNull(Val(uiData).data.directorOutput)

\* handleRunDirector (lines 109-127) up to the await in runDirector:
\* runDirectorOnly resets the record (lines 612-619) and starts the call
HandleRunDirector ==
    /\ CanRunDirector
    /\ env.director > 0
    /\ LET M == ResetRecord(Mem(debugData, uiData, arch))
           a == [app EXCEPT !.isAnalyzing = TRUE, !.activeStep = 2, !.error = FALSE]
       IN  Commit(M, a)
    /\ dir' = Append(dir, DirectorCall("runDirectorOnly", "fresh", "handleDebugUpdate",
                                       Outputs(debugData)))
    /\ env' = [env EXCEPT !.director = @ - 1]
    /\ ev' = Event("runDirectorOnly", "fresh", 0, "started", Outputs(debugData))
    /\ UNCHANGED <<pool, retry>>

\* retryDirector (lines 736-743).  DirectorStep's `With Feedback` passes
\* mode conversational; mode fresh is the other value of options.mode
RetryDirector(mode) ==
    /\ ~app.isAnalyzing
    /\ app.activeStep >= 2
    /\ ~IsNull(uiData)
    /\ ~IsNull(Val(uiData).data.directorOutput)
    /\ env.retries > 0
    /\ dir' = Append(dir, DirectorCall("retryDirector", mode, "setDebugData",
                                       Outputs(debugData)))
    /\ env' = [env EXCEPT !.retries = @ - 1]
    /\ ev' = Event("retryDirector", mode, 0, "started", Outputs(debugData))
    /\ UNCHANGED <<debugData, uiData, app, pool, retry, arch>>

\* the Director call returns a manifest
DirectorFulfilled(i, result) ==
    LET c == dir[i]
        M0 == Mem(debugData, uiData, arch)
        M1 == runDirector_store(callGemini_ok(M0, "director"), c.mode, result, c.cb)
    IN  /\ IF c.fn = "runDirectorOnly"
           THEN \* return { ...debugData }; setDebugData(debugResult) (lines 121-123)
                Commit(setDebugData(M1), [app EXCEPT !.isAnalyzing = FALSE])
           ELSE Commit(M1, app)
        /\ dir' = RemoveAt(dir, i)
        /\ ev' = [Event(c.fn, c.mode, 0, "fulfilled", c.pre) EXCEPT !.manifest = result]
        /\ UNCHANGED <<pool, retry, env>>

\* the Director call fails: no response, or a response that does not parse
DirectorRejected(i, failure) ==
    LET c == dir[i]
        M1 == callGemini_fail(Mem(debugData, uiData, arch), "director", failure)
    IN  /\ IF c.fn = "runDirectorOnly"
           THEN Commit(M1, handleError(app))
           ELSE Commit(M1, app)
        /\ env.failures > 0
        /\ env' = [env EXCEPT !.failures = @ - 1]
        /\ dir' = RemoveAt(dir, i)
        /\ ev' = Event(c.fn, c.mode, 0, "rejected", c.pre)
        /\ UNCHANGED <<pool, retry>>

(***************************************************************************)
(* Stage 2: Worker                                                         *)
(***************************************************************************)
Geometry(id, g) == [id |-> id, g |-> g]

ErrorEntry(id, msg, n) == [manifestId |-> id, error |-> msg, retryCount |-> n]

\* e instanceof Error ? e.message : String(e)
Message(failure) == failure

RECURSIVE FindIndex(_, _, _)
\* Array.prototype.findIndex(w => w.id === id), 1-based; 0 when absent
FindIndex(outs, id, from) ==
    IF from > Len(outs) THEN 0
    ELSE IF outs[from].id = id THEN from
    ELSE FindIndex(outs, id, from + 1)

RECURSIVE FindError(_, _, _)
\* workerErrors.find(e => e.manifestId === id), 1-based; 0 when absent
FindError(errs, id, from) ==
    IF from > Len(errs) THEN 0
    ELSE IF errs[from].manifestId = id THEN from
    ELSE FindError(errs, id, from + 1)

RECURSIVE FilterErrors(_, _)
\* workerErrors.filter(e => e.manifestId !== id) (line 473)
FilterErrors(errs, id) ==
    IF errs = <<>> THEN <<>>
    ELSE IF Head(errs).manifestId # id
         THEN <<Head(errs)>> \o FilterErrors(Tail(errs), id)
         ELSE FilterErrors(Tail(errs), id)

\* the push branch left out: a new unit's result is dropped
StoreOutput_noPush(outs, geometry) ==
    LET idx == FindIndex(outs, geometry.id, 1)
    IN  IF idx >= 1 THEN [outs EXCEPT ![idx] = geometry] ELSE outs

\* a store that pushes without looking for the unit's entry
StoreOutput_append(outs, geometry) == Append(outs, geometry)

\* lines 476-478: replace the unit's entry, or push
StoreOutput(outs, geometry) ==
    LET idx == FindIndex(outs, geometry.id, 1)
    IN  IF idx >= 1 THEN [outs EXCEPT ![idx] = geometry] ELSE Append(outs, geometry)

\* the filter dropping every error entry
ClearError_all(errs, mode, id) ==
    IF mode = "conversational" THEN <<>> ELSE errs

\* lines 471-474: only the conversational mode drops the unit's error
ClearError(errs, mode, id) ==
    IF mode = "conversational" THEN FilterErrors(errs, id) ELSE errs

\* a runWorker invocation waiting for a call: the first generation has
\* turn 0 (line 346), the loop runs turn 1..MAX_TURNS (line 374)
WorkerRun(unit, mode, cb, phase, turn, geometry) ==
    [unit |-> unit, mode |-> mode, cb |-> cb, phase |-> phase, turn |-> turn,
     geometry |-> geometry]

runWorker_start(unit, mode, cb) == WorkerRun(unit, mode, cb, "gen", 0, Null)

\* what the service may answer to a call: a candidate geometry to a
\* generation call, a verdict to a critique call, or a failure
Response(kind, v) == [kind |-> kind, v |-> v]

Answers(w, r) ==
    \/ r.kind = "failure"
    \/ w.phase = "gen" /\ r.kind = "geometry"
    \/ w.phase = "eval" /\ r.kind = "verdict"

\* the answer is within what is left of the bounds
Allowed(r) ==
    /\ r.kind = "failure" => env.failures > 0
    /\ (r.kind = "verdict" /\ r.v = "IMPROVE") => env.improves > 0

Spend(r) ==
    IF r.kind = "failure" THEN [env EXCEPT !.failures = @ - 1]
    ELSE IF (r.kind = "verdict" /\ r.v = "IMPROVE") THEN [env EXCEPT !.improves = @ - 1]
    ELSE env

\* lines 471-481: write the result into the record and notify
runWorker_finish(M, w) ==
    LET M1 == IF w.mode = "conversational"
              THEN Replace(M, "workerErrors",
                           ClearError(M.dd.workerErrors, w.mode, w.unit))
              ELSE M
        M2 == InPlace(M1, "workerOutputs",
                      StoreOutput(M1.dd.workerOutputs, Val(w.geometry)))
    IN  onDebug(M2, w.cb)

Pending(w) == [status |-> "pending", run |-> Some(w), value |-> Null, reason |-> Null]
Fulfilled(geometry) ==
    [status |-> "fulfilled", run |-> Null, value |-> Some(geometry), reason |-> Null]
Rejected(msg) ==
    [status |-> "rejected", run |-> Null, value |-> Null, reason |-> Some(msg)]
NotStarted == [status |-> "notstarted", run |-> Null, value |-> Null, reason |-> Null]

\* the loop without its bound: while (true)
LoopContinues_unbounded(turn) == TRUE

\* for (let turn = 1; turn <= MAX_TURNS; turn++): another turn follows `turn`
LoopContinues(turn) == turn + 1 <= MAX_TURNS

\* runWorker resumed by the answer r to its outstanding call (lines 346-469):
\* the heap and the promise of the invocation afterwards
runWorker_resume(M, w, r) ==
    IF r.kind = "failure"
    THEN [M |-> callGemini_fail(M, "workers", r.v), p |-> Rejected(Message(r.v))]
    ELSE
    LET M1 == callGemini_ok(M, "workers")
    IN  IF w.phase = "gen"
        THEN LET w1 == [w EXCEPT !.geometry = Some(Geometry(w.unit, r.v))]
             IN  IF LoopContinues(w.turn)
                 THEN [M |-> M1,
                       p |-> Pending([w1 EXCEPT !.phase = "eval", !.turn = w.turn + 1])]
                 ELSE [M |-> runWorker_finish(M1, w1), p |-> Fulfilled(Val(w1.geometry))]
        ELSE IF r.v = "GOOD"
             THEN [M |-> runWorker_finish(addApiLog(M1, "workers", "Verdict: GOOD"), w),
                   p |-> Fulfilled(Val(w.geometry))]
             ELSE [M |-> addApiLog(M1, "workers", "Verdict: IMPROVE"),
                   p |-> Pending([w EXCEPT !.phase = "gen"])]

(***************************************************************************)
(* runWorkersOnly: the batches                                             *)
(***************************************************************************)
Min(a, b) == IF a < b THEN a ELSE b

\* manifests.slice(i): the slice without its end
Chunk_toEnd(n, i) == (i + 1)..n

\* manifests.slice(i, i + BATCH_SIZE), as 1-based indices
Chunk(n, i) == (i + 1)..Min(i + BATCH_SIZE, n)

\* the chunk awaited with Promise.race: resolved as soon as one request settles
AllSettled_race(workers, n, i) ==
    \E j \in Chunk(n, i) : workers[j].status \in {"fulfilled", "rejected"}

\* Promise.allSettled over the chunk has resolved
AllSettled(workers, n, i) ==
    \A j \in Chunk(n, i) : workers[j].status \in {"fulfilled", "rejected"}

\* chunk.map(m => runWorker(imageBase64, m, { mode: 'fresh' }, onDebug))
Dispatch(P) ==
    [P EXCEPT !.workers =
        [j \in DOMAIN P.workers |->
            IF j \in Chunk(Len(P.manifests), P.i)
            THEN Pending(runWorker_start(P.manifests[j], "fresh", "handleDebugUpdate"))
            ELSE P.workers[j]]]

\* an outstanding runArchitect call: the manifests and the geometries array
\* it was given (lines 498-504)
ArchitectCall(fn, mode, cb, manifests, geometries, pre) ==
    [fn |-> fn, mode |-> mode, cb |-> cb, manifests |-> manifests,
     geometries |-> geometries, geoLive |-> TRUE, pre |-> pre]

RECURSIVE PushErrors(_, _, _, _)
\* lines 662-673: one error entry per rejected result, in index order
PushErrors(errs, results, manifests, index) ==
    IF index > Len(results) THEN errs
    ELSE IF results[index].status = "rejected"
         THEN PushErrors(Append(errs, ErrorEntry(manifests[index],
                                                Val(results[index].reason), 0)),
                         results, manifests, index + 1)
         ELSE PushErrors(errs, results, manifests, index + 1)

\* the end of runWorkersOnly going on to the Assembly call by itself
runWorkersOnly_finish_auto(M, P) ==
    LET M1 == InPlace(M, "workerErrors",
                      PushErrors(M.dd.workerErrors, P.workerResults, P.manifests, 1))
        M2 == onDebug(M1, "handleDebugUpdate")
    IN  [M2 EXCEPT !.arch = Append(@, ArchitectCall("runArchitectOnly", "fresh",
                                      "handleDebugUpdate", M2.dd.directorOutput,
                                      M2.dd.workerOutputs, Outputs(M2.dd)))]

\* lines 661-676: the end of runWorkersOnly
runWorkersOnly_finish(M, P) ==
    LET M1 == InPlace(M, "workerErrors",
                      PushErrors(M.dd.workerErrors, P.workerResults, P.manifests, 1))
    IN  onDebug(M1, "handleDebugUpdate")

RECURSIVE runWorkersOnly_loop(_, _, _)
\* lines 648-659 from the point where the batch at P.i is awaited: when it
\* has settled its results are pushed and the next batch is dispatched.
\* Yields the heap, the invocation and the App state afterwards.
runWorkersOnly_loop(M, P, a) ==
    LET n == Len(P.manifests)
    IN  IF P.i < n /\ ~AllSettled(P.workers, n, P.i)
        THEN [M |-> M, P |-> P, a |-> a]
        ELSE IF P.i >= n
        THEN \* return { ...debugData }; setDebugData(updatedDebugData) (lines 144-146)
             [M |-> setDebugData(runWorkersOnly_finish(M, P)),
              P |-> [P EXCEPT !.active = FALSE, !.workers = <<>>],
              a |-> [a EXCEPT !.isAnalyzing = FALSE]]
        ELSE LET P1 == [P EXCEPT
                          !.workerResults = @ \o [j \in 1..(Min(P.i + BATCH_SIZE, n) - P.i) |->
                                                     P.workers[P.i + j]],
                          !.i = P.i + BATCH_SIZE]
             IN  IF P1.i < n
                 THEN [M |-> M, P |-> Dispatch(P1), a |-> a]
                 ELSE runWorkersOnly_loop(M, P1, a)

\* lines 634-643: restore the caller's copy and clear the worker data
runWorkersOnly_begin(M, manifests) ==
    LET M1 == Replace(Adopt(M), "directorOutput", Some(manifests))
        M2 == Replace(Replace(M1, "workerOutputs", <<>>), "workerErrors", <<>>)
    IN  onDebug(M2, "handleDebugUpdate")

\* the buttons that call handleRunWorkers: `Confirm Parts` of DirectorStep and
\* `Retry` of WorkersStep
CanRunWorkers ==
    /\ ~app.isAnalyzing
    /\ ~IsNull(uiData)
    /\ \/ /\ app.activeStep >= 2
          /\ ~IsNull(Val(uiData).data.directorOutput)
       \/ /\ app.activeStep >= 3
          /\ Len(Val(uiData).data.workerOutputs) > 0

\* handleRunWorkers (lines 129-150) up to the first await of runWorkersOnly
HandleRunWorkers ==
    /\ CanRunWorkers
    /\ ~IsNull(Val(uiData).data.directorOutput)
    /\ env.workers > 0
    /\ LET manifests == Val(Val(uiData).data.directorOutput)
           M == runWorkersOnly_begin(Mem(debugData, uiData, arch), manifests)
           P == [active |-> TRUE, manifests |-> manifests, i |-> 0,
                 workers |-> [j \in 1..Len(manifests) |-> NotStarted],
                 workerResults |-> <<>>]
           a == [app EXCEPT !.isAnalyzing = TRUE, !.activeStep = 3, !.error = FALSE]
           R == IF Len(manifests) = 0
                THEN runWorkersOnly_loop(M, P, a)
                ELSE [M |-> M, P |-> Dispatch(P), a |-> a]
       IN  /\ Commit(R.M, R.a)
           /\ pool' = R.P
    /\ env' = [env EXCEPT !.workers = @ - 1]
    /\ ev' = Event("runWorkersOnly", "fresh", 0,
                   IF Len(Val(Val(uiData).data.directorOutput)) = 0
                   THEN "fulfilled" ELSE "started", Outputs(debugData))
    /\ UNCHANGED <<dir, retry>>

\* the service answers the oldest env.window pending calls of the batch first
InWindow(j) ==
    Cardinality({i \in 1..(j - 1) : pool.workers[i].status = "pending"}) < env.window

\* the service answers the call of the batch worker at index j
BatchWorkerStep(j, r) ==
    /\ pool.active
    /\ j \in DOMAIN pool.workers
    /\ pool.workers[j].status = "pending"
    /\ LET w == Val(pool.workers[j].run)
           S == runWorker_resume(Mem(debugData, uiData, arch), w, r)
           P == [pool EXCEPT !.workers[j] = S.p]
           R == runWorkersOnly_loop(S.M, P, app)
       IN  /\ Answers(w, r)
           /\ Allowed(r)
           /\ InWindow(j)
           /\ env' = Spend(r)
           /\ Commit(R.M, R.a)
           /\ pool' = R.P
           /\ ev' = IF R.P.active
                    THEN Event("runWorker", "fresh", w.unit, S.p.status, NoOutputs)
                    ELSE Event("runWorkersOnly", "fresh", w.unit, "fulfilled", NoOutputs)
    /\ UNCHANGED <<dir, retry>>

\* WorkersStep: the retry buttons of a WorkerCanvas (both modes) and of a
\* FailedWorkerCard (fresh), disabled while that unit is retrying
CanRetryWorker(k, mode) ==
    /\ app.activeStep >= 3
    /\ ~IsNull(uiData)
    /\ k \notin RetryingIds
    /\ \/ FindIndex(Val(uiData).data.workerOutputs, k, 1) >= 1
       \/ /\ mode = "fresh"
          /\ FindError(Val(uiData).data.workerErrors, k, 1) >= 1

RetryFn(mode) == IF mode = "conversational" THEN "retryWorkerWithFeedback" ELSE "retryWorker"

\* retryWorker (lines 704-717) and retryWorkerWithFeedback (lines 756-765) up
\* to the first await: null when the unit is not in directorOutput
RetryWorker(k, mode) ==
    /\ CanRetryWorker(k, mode)
    /\ env.retries > 0
    /\ LET found == /\ ~IsNull(debugData.directorOutput)
                    /\ k \in Range(Val(debugData.directorOutput))
       IN  /\ retry' = IF found
                       THEN [retry EXCEPT ![k] = Some(runWorker_start(k, mode, "setDebugData"))]
                       ELSE retry
           /\ ev' = Event(RetryFn(mode), mode, k,
                          IF found THEN "started" ELSE "null", NoOutputs)
    /\ env' = [env EXCEPT !.retries = @ - 1]
    /\ UNCHANGED <<debugData, uiData, app, dir, pool, arch>>

\* lines 718-728: the catch block of retryWorker
retryWorker_catch(M, k, msg) ==
    LET errs == M.dd.workerErrors
        idx == FindError(errs, k, 1)
        M1 == IF idx >= 1
              THEN InPlace(M, "workerErrors",
                           [errs EXCEPT ![idx] = ErrorEntry(k, msg, errs[idx].retryCount + 1)])
              ELSE M
    IN  onDebug(M1, "setDebugData")

\* lines 766-769: the catch block of retryWorkerWithFeedback
retryWorkerWithFeedback_catch(M, k, msg) == M

\* the service answers the call of the single-unit retry of unit k
RetryWorkerStep(k, r) ==
    /\ ~IsNull(retry[k])
    /\ LET w == Val(retry[k])
           S == runWorker_resume(Mem(debugData, uiData, arch), w, r)
           M == IF S.p.status = "rejected"
                THEN IF w.mode = "conversational"
                     THEN retryWorkerWithFeedback_catch(S.M, k, Val(S.p.reason))
                     ELSE retryWorker_catch(S.M, k, Val(S.p.reason))
                ELSE S.M
       IN  /\ Answers(w, r)
           /\ Allowed(r)
           /\ env' = Spend(r)
           /\ Commit(M, app)
           /\ retry' = [retry EXCEPT ![k] = IF S.p.status = "pending" THEN S.p.run ELSE Null]
           /\ ev' = Event(RetryFn(w.mode), w.mode, k, S.p.status, NoOutputs)
    /\ UNCHANGED <<dir, pool>>

(***************************************************************************)
(* Stage 3: Architect                                                      *)
(***************************************************************************)
Part(id, g) == [id |-> id, g |-> g]

\* Rigging responses: the ids the Architect names, in ascending order
Riggings == Manifests

\* lines 508-512: geometries.map(g => manifests.find(...)) throws a TypeError
\* when manifests is null and there is a geometry
SummaryThrows(manifests, geometries) == IsNull(manifests) /\ Len(geometries) > 0

\* lines 579-582: some rig names a part without geometry or manifest
MissingData(c, rigging) ==
    \E x \in DOMAIN rigging :
        \/ FindIndex(c.geometries, rigging[x], 1) = 0
        \/ IsNull(c.manifests)
        \/ rigging[x] \notin Range(Val(c.manifests))

\* lines 579-595: rigging.map(...)
BuildParts(c, rigging) ==
    [x \in DOMAIN rigging |->
        Part(rigging[x], c.geometries[FindIndex(c.geometries, rigging[x], 1)].g)]

\* the store of a conversational call also invalidating the extraction results
runArchitect_store_reset(M, c, parts) ==
    LET M1 == IF c.mode = "conversational" THEN Replace(M, "workerOutputs", <<>>) ELSE M
    IN  onDebug(Replace(M1, "architectOutput", Some(parts)), c.cb)

\* lines 597-599
runArchitect_store(M, c, parts) ==
    onDebug(Replace(M, "architectOutput", Some(parts)), c.cb)

\* the button that calls handleRunArchitect: `Confirm Geometries` of WorkersStep
CanRunArchitect ==
    /\ ~app.isAnalyzing
    /\ app.activeStep >= 3
    /\ ~IsNull(uiData)
    /\ Len(Val(uiData).data.workerOutputs) > 0

\* lines 687-693: restore the caller's copy and clear the assembly output
runArchitectOnly_begin(M) ==
    onDebug(Replace(Adopt(M), "architectOutput", Null), "handleDebugUpdate")

\* handleRunArchitect (lines 152-176) up to the await in runArchitect
HandleRunArchitect ==
    /\ CanRunArchitect
    /\ env.architect > 0
    /\ LET M == runArchitectOnly_begin(Mem(debugData, uiData, arch))
           a == [app EXCEPT !.isAnalyzing = TRUE, !.activeStep = 4, !.error = FALSE]
           manifests == M.dd.directorOutput
           c == ArchitectCall("runArchitectOnly", "fresh", "handleDebugUpdate",
                              manifests, M.dd.workerOutputs, Outputs(debugData))
       IN  IF IsNull(manifests)
           THEN \* throw new Error('No director output found')
                /\ Commit(M, handleError(a))
                /\ ev' = Event("runArchitectOnly", "fresh", 0, "threw", Outputs(debugData))
           ELSE /\ Commit([M EXCEPT !.arch = Append(M.arch, c)], a)
                /\ ev' = Event("runArchitectOnly", "fresh", 0, "started", Outputs(debugData))
    /\ env' = [env EXCEPT !.architect = @ - 1]
    /\ UNCHANGED <<dir, pool, retry>>

\* ArchitectStep: `Retry` and `With Feedback`, shown with the analysis results
CanRetryArchitect ==
    /\ ~app.isAnalyzing
    /\ app.activeStep >= 4
    /\ ~IsNull(app.analysisResults)

\* retryArchitect (lines 745-754) up to the await in runArchitect
RetryArchitect(mode) ==
    /\ CanRetryArchitect
    /\ env.retries > 0
    /\ LET c == ArchitectCall("retryArchitect", mode, "setDebugData",
                              debugData.directorOutput, debugData.workerOutputs,
                              Outputs(debugData))
       IN  IF SummaryThrows(c.manifests, c.geometries)
           THEN /\ ev' = Event("retryArchitect", mode, 0, "threw", Outputs(debugData))
                /\ UNCHANGED arch
           ELSE /\ ev' = Event("retryArchitect", mode, 0, "started", Outputs(debugData))
                /\ arch' = Append(arch, c)
    /\ env' = [env EXCEPT !.retries = @ - 1]
    /\ UNCHANGED <<debugData, uiData, app, dir, pool, retry>>

\* the Architect call returns a rigging
ArchitectFulfilled(i, rigging) ==
    LET c == arch[i]
        M0 == Mem(debugData, uiData, RemoveAt(arch, i))
        M1 == callGemini_ok(M0, "architect")
    IN  /\ IF MissingData(c, rigging)
           THEN \* throw new Error(`Missing data for part ${rig.id}`)
                /\ IF c.fn = "runArchitectOnly"
                   THEN Commit(M1, handleError(app))
                   ELSE Commit(M1, app)
                /\ ev' = Event(c.fn, c.mode, 0, "rejected", c.pre)
           ELSE LET M2 == runArchitect_store(M1, c, BuildParts(c, rigging))
                IN  /\ IF c.fn = "runArchitectOnly"
                       THEN \* setDebugData(finalDebugData) and setState (lines 166-172)
                            Commit(setDebugData(M2),
                                   [app EXCEPT !.isAnalyzing = FALSE,
                                               !.analysisResults = M2.dd.architectOutput,
                                               !.activeStep = 4])
                       ELSE Commit(M2, app)
                    /\ ev' = Event(c.fn, c.mode, 0, "fulfilled", c.pre)
        /\ UNCHANGED <<dir, pool, retry, env>>

\* the Architect call fails: no response, or a response that does not parse
ArchitectRejected(i, failure) ==
    LET c == arch[i]
        M1 == callGemini_fail(Mem(debugData, uiData, RemoveAt(arch, i)), "architect", failure)
    IN  /\ IF c.fn = "runArchitectOnly"
           THEN Commit(M1, handleError(app))
           ELSE Commit(M1, app)
        /\ env.failures > 0
        /\ env' = [env EXCEPT !.failures = @ - 1]
        /\ ev' = Event(c.fn, c.mode, 0, "rejected", c.pre)
        /\ UNCHANGED <<dir, pool, retry>>

PoolIdle == [active |-> FALSE, manifests |-> <<>>, i |-> 0, workers |-> <<>>, workerResults |-> <<>>]

Init ==
    /\ debugData = EmptyDebugData
    /\ uiData = Null
    /\ app = initialState
    /\ dir = <<>>
    /\ pool = PoolIdle
    /\ retry = [k \in 1..MaxUnits |-> Null]
    /\ arch = <<>>
    /\ env = [units |-> MaxUnits, geos |-> MaxGeo, window |-> MaxUnits,
              director |-> MaxDirectorRuns, workers |-> MaxWorkerRuns,
              architect |-> MaxArchitectRuns, retries |-> MaxRetryOps,
              improves |-> MaxImproves, failures |-> MaxFailures]
    /\ ev = EvNone
    /\ atlas = Null
    /\ kin = Null

Next ==
    \/ Upload /\ UNCHANGED <<atlas, kin>>
    \/ HandleRunDirector /\ UNCHANGED <<atlas, kin>>
    \/ \E mode \in Modes : RetryDirector(mode) /\ UNCHANGED <<atlas, kin>>
    \/ \E i \in DOMAIN dir : \E result \in Manifests : DirectorFulfilled(i, result) /\ UNCHANGED <<atlas, kin>>
    \/ \E i \in DOMAIN dir : \E failure \in Failures : DirectorRejected(i, failure) /\ UNCHANGED <<atlas, kin>>
    \/ HandleRunWorkers /\ UNCHANGED <<atlas, kin>>
    \/ \E j \in DOMAIN pool.workers : \E g \in Geos :
          BatchWorkerStep(j, Response("geometry", g)) /\ UNCHANGED <<atlas, kin>>
    \/ \E j \in DOMAIN pool.workers : \E v \in {"GOOD", "IMPROVE"} :
          BatchWorkerStep(j, Response("verdict", v)) /\ UNCHANGED <<atlas, kin>>
    \/ \E j \in DOMAIN pool.workers : \E f \in Failures :
          BatchWorkerStep(j, Response("failure", f)) /\ UNCHANGED <<atlas, kin>>
    \/ \E k \in UnitIds : \E mode \in Modes : RetryWorker(k, mode) /\ UNCHANGED <<atlas, kin>>
    \/ \E k \in UnitIds : \E g \in Geos : RetryWorkerStep(k, Response("geometry", g)) /\ UNCHANGED <<atlas, kin>>
    \/ \E k \in UnitIds : \E v \in {"GOOD", "IMPROVE"} : RetryWorkerStep(k, Response("verdict", v)) /\ UNCHANGED <<atlas, kin>>
    \/ \E k \in UnitIds : \E f \in Failures : RetryWorkerStep(k, Response("failure", f)) /\ UNCHANGED <<atlas, kin>>
    \/ HandleRunArchitect /\ UNCHANGED <<atlas, kin>>
    \/ \E mode \in Modes : RetryArchitect(mode) /\ UNCHANGED <<atlas, kin>>
    \/ \E i \in DOMAIN arch : \E rigging \in Riggings : ArchitectFulfilled(i, rigging) /\ UNCHANGED <<atlas, kin>>
    \/ \E i \in DOMAIN arch : \E failure \in Failures : ArchitectRejected(i, failure) /\ UNCHANGED <<atlas, kin>>

Spec == Init /\ [][Next]_vars

(***************************************************************************)
(* The Extraction stage alone, from the state in which Discovery has       *)
(* returned a manifest of n units and DirectorStep shows it                *)
(***************************************************************************)
AfterDiscovery(n) ==
    LET dd == [EmptyDebugData EXCEPT
                 !.directorOutput = Some([j \in 1..n |-> j]),
                 !.apiLogs = <<LogEntry("director", "response")>>]
    IN  /\ debugData = dd
        /\ uiData = Some([data |-> dd, live |-> Fields, handed |-> TRUE])
        /\ app = [initialState EXCEPT !.activeStep = 2]
        /\ dir = <<>>
        /\ pool = PoolIdle
        /\ retry = [k \in 1..n |-> Null]
        /\ arch = <<>>
        /\ ev = EvNone
        /\ atlas = Null
        /\ kin = Null

BatchWorkerSteps ==
    \/ \E j \in DOMAIN pool.workers : \E g \in Geos :
          BatchWorkerStep(j, Response("geometry", g)) /\ UNCHANGED <<atlas, kin>>
    \/ \E j \in DOMAIN pool.workers : \E v \in {"GOOD", "IMPROVE"} :
          BatchWorkerStep(j, Response("verdict", v)) /\ UNCHANGED <<atlas, kin>>
    \/ \E j \in DOMAIN pool.workers : \E f \in Failures :
          BatchWorkerStep(j, Response("failure", f)) /\ UNCHANGED <<atlas, kin>>

\* single-unit retries on a manifest of RetryUnits units
InitRetry ==
    /\ AfterDiscovery(RetryUnits)
    /\ env = [units |-> RetryUnits, geos |-> MaxGeo, window |-> RetryUnits,
              director |-> 0, workers |-> MaxWorkerRuns, architect |-> 0,
              retries |-> MaxRetryOps, improves |-> MaxImproves, failures |-> MaxFailures]

NextRetry ==
    \/ HandleRunWorkers /\ UNCHANGED <<atlas, kin>>
    \/ BatchWorkerSteps
    \/ \E k \in UnitIds : \E mode \in Modes : RetryWorker(k, mode) /\ UNCHANGED <<atlas, kin>>
    \/ \E k \in UnitIds : \E g \in Geos : RetryWorkerStep(k, Response("geometry", g)) /\ UNCHANGED <<atlas, kin>>
    \/ \E k \in UnitIds : \E v \in {"GOOD", "IMPROVE"} : RetryWorkerStep(k, Response("verdict", v)) /\ UNCHANGED <<atlas, kin>>
    \/ \E k \in UnitIds : \E f \in Failures : RetryWorkerStep(k, Response("failure", f)) /\ UNCHANGED <<atlas, kin>>

SpecRetry == InitRetry /\ [][NextRetry]_vars

\* runWorkersOnly alone, on a manifest of more than one batch whose critique
\* calls are all answered GOOD, or on a manifest of RetryUnits units whose
\* calls are answered in any order and with IMPROVE verdicts
InitPool ==
    \/ /\ AfterDiscovery(BATCH_SIZE + PoolExtra)
       /\ env = [units |-> BATCH_SIZE + PoolExtra, geos |-> MaxGeo, window |-> PoolWindow,
                 director |-> 0, workers |-> MaxWorkerRuns, architect |-> 0,
                 retries |-> 0, improves |-> 0, failures |-> MaxFailures]
    \/ /\ AfterDiscovery(RetryUnits)
       /\ env = [units |-> RetryUnits, geos |-> MaxGeo, window |-> RetryUnits,
                 director |-> 0, workers |-> MaxWorkerRuns, architect |-> 0,
                 retries |-> 0, improves |-> MaxImproves, failures |-> MaxFailures]

NextPool ==
    \/ HandleRunWorkers /\ UNCHANGED <<atlas, kin>>
    \/ BatchWorkerSteps

SpecPool == InitPool /\ [][NextPool]_vars

\* runWorkersOnly on a manifest of RetryUnits units, the service giving enough
\* IMPROVE verdicts for a unit to be told IMPROVE in every round
InitLoop ==
    /\ AfterDiscovery(RetryUnits)
    /\ env = [units |-> RetryUnits, geos |-> MaxGeo, window |-> RetryUnits,
              director |-> 0, workers |-> MaxWorkerRuns, architect |-> 0,
              retries |-> 0, improves |-> LoopImproves, failures |-> MaxFailures]

SpecLoop == InitLoop /\ [][NextPool]_vars

\* the Extraction stage run again (`Retry` of WorkersStep) among single-unit
\* retries, every critique call answered GOOD
InitRerun ==
    /\ AfterDiscovery(RetryUnits)
    /\ env = [units |-> RetryUnits, geos |-> MaxGeo, window |-> RetryUnits,
              director |-> 0, workers |-> MaxReruns, architect |-> 0,
              retries |-> MaxRetryOps, improves |-> 0, failures |-> MaxFailures]

SpecRerun == InitRerun /\ [][NextRetry]_vars

(***************************************************************************)
(* utils/canvasUtils.ts: the atlas packers.                                *)
(*                                                                         *)
(* packRow and packMaxRects compute with scale = factor * A / sqrt(T),     *)
(* A the inner side of the canvas and T the total area of the parts.       *)
(* Every quantity they compare or round is a + b * scale for integers a    *)
(* and b; the model keeps the pair (a, b) and decides signs and roundings  *)
(* exactly, in integers.  packGrid computes with fractions.                *)
(***************************************************************************)
Max(a, b) == IF a > b THEN a ELSE b
Abs(a) == IF a < 0 THEN 0 - a ELSE a
Sgn(a) == IF a > 0 THEN 1 ELSE IF a < 0 THEN 0 - 1 ELSE 0

RECURSIVE GCD(_, _)
GCD(a, b) == IF b = 0 THEN a ELSE GCD(b, a % b)

RECURSIVE CmpFrac(_, _, _, _)
\* the sign of p/q - r/t, for p, r >= 0 and q, t > 0 (continued fractions)
CmpFrac(p, q, r, t) ==
    LET i == p \div q
        j == r \div t
        pr == p % q
        rr == r % t
    IN  IF i # j THEN Sgn(i - j)
        ELSE IF pr = 0 \/ rr = 0 THEN Sgn(pr - rr)
        ELSE CmpFrac(t, rr, q, pr)

\* a + b * scale
Lin(a, b) == [a |-> a, b |-> b]
LAdd(x, y) == Lin(x.a + y.a, x.b + y.b)
LSub(x, y) == Lin(x.a - y.a, x.b - y.b)

\* const totalArea = partsWithSize.reduce((sum, p) => sum + p.srcW * p.srcH, 0)
RECURSIVE totalArea(_)
totalArea(ps) ==
    IF ps = <<>> THEN 0
    ELSE ps[1].srcW * ps[1].srcH + totalArea(Tail(ps))

\* const scale = Math.sqrt(availableArea / totalArea) * factor, factor = fn/fd:
\* scale = num / (den * sqrt(T))
Scale(ps, resolution, fn, fd) ==
    LET side == resolution - BOX_PADDING * 2
        g == GCD(fn * side, fd)
    IN  [num |-> (fn * side) \div g, den |-> fd \div g, T |-> totalArea(ps)]

\* the sign of a + b * scale
SignLin(x, K) ==
    IF x.b = 0 THEN Sgn(x.a)
    ELSE IF x.a = 0 \/ Sgn(x.a) = Sgn(x.b) THEN Sgn(x.b)
    ELSE LET P == Abs(x.b) * K.num
             Q == Abs(x.a) * K.den
         IN  Sgn(x.b) * CmpFrac(P, Q, Q * K.T, P)

RECURSIVE RoundSearch(_, _, _, _)
\* the largest n of lo..hi with n - 1/2 <= b * scale
RoundSearch(lo, hi, b, K) ==
    IF lo = hi THEN lo
    ELSE LET mid == (lo + hi + 1) \div 2
         IN  IF SignLin(Lin(1 - 2 * mid, 2 * b), K) >= 0
             THEN RoundSearch(mid, hi, b, K)
             ELSE RoundSearch(lo, mid - 1, b, K)

\* Math.round(a + b * scale), b >= 0
RoundLin(x, K) == x.a + RoundSearch(0, (x.b * K.num) \div K.den + 1, x.b, K)

\* fractions n/d, d > 0
Rat(n, d) == [n |-> n, d |-> d]
RAdd(x, y) == Rat(x.n * y.d + y.n * x.d, x.d * y.d)
RSub(x, y) == Rat(x.n * y.d - y.n * x.d, x.d * y.d)
RMul(x, y) == Rat(x.n * y.n, x.d * y.d)
RLess(x, y) == x.n * y.d < y.n * x.d
\* Math.round(n/d)
RoundRat(x) == (2 * x.n + x.d) \div (2 * x.d)

\* srcW: Math.max(10, bounds.w), srcH: Math.max(10, bounds.h)
calculatePartSizes(parts) ==
    [i \in DOMAIN parts |->
        [srcW |-> Max(MinSize, parts[i].w), srcH |-> Max(MinSize, parts[i].h)]]

atlasRect(x, y, w, h) == [x |-> x, y |-> y, w |-> w, h |-> h]

RECURSIVE packRow_forEach(_, _, _, _, _, _, _)
\* the body of packRow's forEach, from part i on
packRow_forEach(ps, i, curX, curY, rowHeight, K, resolution) ==
    IF i > Len(ps) THEN <<>>
    ELSE LET destW == Lin(0, ps[i].srcW)
             destH == Lin(0, ps[i].srcH)
             wrap == SignLin(LAdd(LAdd(curX, destW), Lin(BOX_PADDING - resolution, 0)), K) > 0
             x == IF wrap THEN Lin(BOX_PADDING, 0) ELSE curX
             y == IF wrap THEN LAdd(LAdd(curY, rowHeight), Lin(BOX_PADDING, 0)) ELSE curY
             rh == IF wrap THEN Lin(0, 0) ELSE rowHeight
         IN  <<atlasRect(RoundLin(x, K), RoundLin(y, K), RoundLin(destW, K), RoundLin(destH, K))>>
             \o packRow_forEach(ps, i + 1,
                                LAdd(LAdd(x, destW), Lin(BOX_PADDING, 0)), y,
                                Lin(0, Max(rh.b, destH.b)), K, resolution)

packRow(ps, resolution) ==
    IF ps = <<>> THEN <<>>
    ELSE packRow_forEach(ps, 1, Lin(BOX_PADDING, 0), Lin(BOX_PADDING, 0), Lin(0, 0),
                         Scale(ps, resolution, 17, 20), resolution)

\* Math.ceil(Math.sqrt(n))
CeilSqrt(n) == CHOOSE c \in 0..n : c * c >= n /\ \A d \in 0..(c - 1) : d * d < n

packGrid(ps, resolution) ==
    IF ps = <<>> THEN <<>>
    ELSE
    LET n == Len(ps)
        cols == CeilSqrt(n)
        rows == (n + cols - 1) \div cols
        cellW == Rat(resolution - BOX_PADDING * (cols + 1), cols)
        cellH == Rat(resolution - BOX_PADDING * (rows + 1), rows)
        pad == Rat(BOX_PADDING, 1)
    IN  [k \in 1..n |->
            LET i == k - 1
                col == i % cols
                row == i \div cols
                x == RAdd(pad, RMul(Rat(col, 1), RAdd(cellW, pad)))
                y == RAdd(pad, RMul(Rat(row, 1), RAdd(cellH, pad)))
                aspectRatio == Rat(ps[k].srcW, ps[k].srcH)
                wide == RLess(RMul(cellW, Rat(cellH.d, cellH.n)), aspectRatio)
                destW == IF wide THEN cellW ELSE RMul(cellH, aspectRatio)
                destH == IF wide THEN RMul(cellW, Rat(aspectRatio.d, aspectRatio.n)) ELSE cellH
                offsetX == RMul(RSub(cellW, destW), Rat(1, 2))
                offsetY == RMul(RSub(cellH, destH), Rat(1, 2))
            IN  atlasRect(RoundRat(RAdd(x, offsetX)), RoundRat(RAdd(y, offsetY)),
                          RoundRat(destW), RoundRat(destH))]

RECURSIVE SortByHeight(_, _)
\* [...partsWithSize].sort((a, b) => b.srcH * scale - a.srcH * scale): the
\* indices of ps by descending srcH, equal heights in their original order
SortByHeight(ps, todo) ==
    IF todo = {} THEN <<>>
    ELSE LET top == CHOOSE i \in todo :
                       \A j \in todo : \/ ps[i].srcH > ps[j].srcH
                                       \/ ps[i].srcH = ps[j].srcH /\ i <= j
         IN  <<top>> \o SortByHeight(ps, todo \ {top})

Fits(r, destW, destH, K) ==
    /\ SignLin(LSub(r.w, LAdd(destW, Lin(BOX_PADDING, 0))), K) >= 0
    /\ SignLin(LSub(r.h, LAdd(destH, Lin(BOX_PADDING, 0))), K) >= 0

\* the free rectangle chosen by the scan of packMaxRects: the first of least
\* score r.y + destH among those the part fits, 0 if there is none
BestIdx(freeRects, destW, destH, K) ==
    LET fit == {i \in DOMAIN freeRects : Fits(freeRects[i], destW, destH, K)}
    IN  IF fit = {} THEN 0
        ELSE CHOOSE i \in fit :
                \A j \in fit :
                    LET c == SignLin(LSub(freeRects[i].y, freeRects[j].y), K)
                    IN  c < 0 \/ (c = 0 /\ i <= j)

RECURSIVE packMaxRects_forEach(_, _, _, _, _)
\* the body of packMaxRects' forEach, from the k-th part of sorted on: the
\* atlasRect of every part placed, by index
packMaxRects_forEach(ps, sorted, k, freeRects, K) ==
    IF k > Len(sorted) THEN [i \in {} |-> 0]
    ELSE LET p == ps[sorted[k]]
             destW == Lin(0, p.srcW)
             destH == Lin(0, p.srcH)
             pad == Lin(BOX_PADDING, 0)
             bestIdx == BestIdx(freeRects, destW, destH, K)
         IN  IF bestIdx > 0
             THEN LET r == freeRects[bestIdx]
                      rest == RemoveAt(freeRects, bestIdx)
                      rightW == LSub(r.w, LAdd(destW, pad))
                      bottomH == LSub(r.h, LAdd(destH, pad))
                      right == IF SignLin(LSub(rightW, Lin(20, 0)), K) > 0
                               THEN <<[x |-> LAdd(LAdd(r.x, destW), pad), y |-> r.y,
                                       w |-> rightW, h |-> destH]>>
                               ELSE <<>>
                      bottom == IF SignLin(LSub(bottomH, Lin(20, 0)), K) > 0
                                THEN <<[x |-> r.x, y |-> LAdd(LAdd(r.y, destH), pad),
                                        w |-> r.w, h |-> bottomH]>>
                                ELSE <<>>
                  IN  (sorted[k] :> atlasRect(RoundLin(r.x, K), RoundLin(r.y, K),
                                              RoundLin(destW, K), RoundLin(destH, K)))
                      @@ packMaxRects_forEach(ps, sorted, k + 1, rest \o right \o bottom, K)
             ELSE (sorted[k] :> atlasRect(BOX_PADDING, BOX_PADDING,
                                          RoundLin(destW, K), RoundLin(destH, K)))
                  @@ packMaxRects_forEach(ps, sorted, k + 1, freeRects, K)

packMaxRects(ps, resolution) ==
    IF ps = <<>> THEN <<>>
    ELSE LET side == resolution - BOX_PADDING * 2
             placed == packMaxRects_forEach(ps, SortByHeight(ps, DOMAIN ps), 1,
                          <<[x |-> Lin(BOX_PADDING, 0), y |-> Lin(BOX_PADDING, 0),
                             w |-> Lin(side, 0), h |-> Lin(side, 0)]>>,
                          Scale(ps, resolution, 9, 10))
         IN  [i \in DOMAIN ps |-> placed[i]]

\* let partsWithSize = calculatePartSizes(parts, w, h); switch (algorithm) ...
Pack(parts, resolution, algorithm) ==
    LET partsWithSize == calculatePartSizes(parts)
    IN  CASE algorithm = "grid" -> packGrid(partsWithSize, resolution)
          [] algorithm = "maxrects" -> packMaxRects(partsWithSize, resolution)
          [] OTHER -> packRow(partsWithSize, resolution)

\* the pixel extents a bounding box may have in the source image
Dims == {DimStep * k : k \in 1..MaxDim}
Boxes == [w : Dims, h : Dims]

RECURSIVE SeqsUpTo(_, _)
\* the sequences over S of length at most n
SeqsUpTo(S, n) ==
    IF n = 0 THEN {<<>>}
    ELSE LET shorter == SeqsUpTo(S, n - 1)
         IN  shorter \cup {Append(s, x) : s \in shorter, x \in S}

\* createAtlasPreparation(originalImageBase64, parts, resolution, algorithm)
createAtlasPreparation ==
    /\ atlas # Null
    /\ IsNull(Val(atlas).partsWithAtlasCoords)
    /\ atlas' = Some([Val(atlas) EXCEPT !.partsWithAtlasCoords =
                         Some(Pack(Val(atlas).parts, Val(atlas).resolution,
                                   Val(atlas).algorithm))])
    /\ UNCHANGED <<debugData, uiData, app, dir, pool, retry, arch, env, ev, kin>>

\* a part list, a canvas size and an algorithm, before the layout is computed
InitPack ==
    /\ debugData = EmptyDebugData
    /\ uiData = Null
    /\ app = initialState
    /\ dir = <<>>
    /\ pool = PoolIdle
    /\ retry = <<>>
    /\ arch = <<>>
    /\ env = [units |-> 0, geos |-> 0, window |-> 0, director |-> 0, workers |-> 0,
              architect |-> 0, retries |-> 0, improves |-> 0, failures |-> 0]
    /\ ev = EvNone
    /\ kin = Null
    /\ \E parts \in SeqsUpTo(Boxes, MaxParts) :
       \E resolution \in AtlasResolutions :
       \E algorithm \in PackingAlgorithms :
          atlas = Some([parts |-> parts, resolution |-> resolution,
                        algorithm |-> algorithm, partsWithAtlasCoords |-> Null])

NextPack == createAtlasPreparation

SpecPack == InitPack /\ [][NextPack]_vars

(***************************************************************************)
(* hooks/useKinematics.ts: the hierarchy validator.                        *)
(*                                                                         *)
(* A part is [id, parentId], parentId 0 for a part without parent.  The    *)
(* validator's checks 5 to 7 read only bbox and pivot and push issues      *)
(* about them; the model has checks 1 to 4, the ones that read parentId.   *)
(***************************************************************************)
ValidationIssue(type, partId, message) ==
    [type |-> type, partId |-> partId, message |-> message]

\* const partsById = new Map(parts.map(p => [p.id, p])); partsById.get(id)
partsById(parts, id) ==
    LET at == {i \in DOMAIN parts : parts[i].id = id}
    IN  IF at = {} THEN Null
        ELSE Some(parts[CHOOSE i \in at : \A j \in at : j <= i])

\* parentId: string | null.  0 stands for null, EmptyString for the string ''
\* and any other number for the string that names it
EmptyString == -1

\* !part.parentId: null and the empty string are falsy
Falsy(parentId) == parentId = 0 \/ parentId = EmptyString

RECURSIVE ParentReferences_skipFirst(_, _)
\* Check 1 passing over the first part of the list
ParentReferences_skipFirst(parts, i) ==
    IF i > Len(parts) THEN <<>>
    ELSE (IF i > 1 /\ ~Falsy(parts[i].parentId)
                /\ IsNull(partsById(parts, parts[i].parentId))
          THEN <<ValidationIssue("error", parts[i].id, "Parent does not exist")>>
          ELSE <<>>)
         \o ParentReferences_skipFirst(parts, i + 1)

RECURSIVE ParentReferences(_, _)
\* Check 1, from part i on: the issues about parents that do not exist
ParentReferences(parts, i) ==
    IF i > Len(parts) THEN <<>>
    ELSE (IF ~Falsy(parts[i].parentId) /\ IsNull(partsById(parts, parts[i].parentId))
          THEN <<ValidationIssue("error", parts[i].id, "Parent does not exist")>>
          ELSE <<>>)
         \o ParentReferences(parts, i + 1)

\* Check 1: rootParts
rootParts(parts) == SelectSeq(parts, LAMBDA p : Falsy(p.parentId))

\* if (recursionStack.has(partId)) return true
OnStack_never(st, partId) == FALSE
OnStack(st, partId) == partId \in st.recursionStack

\* recursionStack.delete(partId); return false
Leave_keep(st, partId) == [st EXCEPT !.result = FALSE]
Leave(st, partId) == [st EXCEPT !.recursionStack = @ \ {partId}, !.result = FALSE]

RECURSIVE detectCycle(_, _, _)
\* detectCycle(partId) run on visited, recursionStack and issues as st holds
\* them: what they are afterwards, and what the call returns
detectCycle(parts, partId, st) ==
    IF OnStack(st, partId) THEN [st EXCEPT !.result = TRUE]
    ELSE IF partId \in st.visited THEN [st EXCEPT !.result = FALSE]
    ELSE LET entered == [st EXCEPT !.visited = @ \cup {partId},
                                   !.recursionStack = @ \cup {partId}]
             part == partsById(parts, partId)
         IN  IF ~IsNull(part) /\ ~Falsy(Val(part).parentId)
             THEN LET inner == detectCycle(parts, Val(part).parentId, entered)
                  IN  IF inner.result
                      THEN [inner EXCEPT
                              !.issues = Append(@, ValidationIssue("error", partId,
                                                     "Circular dependency detected"))]
                      ELSE Leave(inner, partId)
             ELSE Leave(entered, partId)

RECURSIVE CircularDependencies(_, _, _)
\* Check 4: parts.forEach(p => detectCycle(p.id)), from part i on
CircularDependencies(parts, i, st) ==
    IF i > Len(parts) THEN st.issues
    ELSE CircularDependencies(parts, i + 1, detectCycle(parts, parts[i].id, st))

useKinematics(parts) ==
    LET roots == rootParts(parts)
        check1 == ParentReferences(parts, 1)
        check2 == IF Len(roots) = 0 /\ Len(parts) > 0
                  THEN <<ValidationIssue("error", parts[1].id, "No root part found")>>
                  ELSE <<>>
        check3 == IF Len(roots) > 1
                  THEN <<ValidationIssue("warning", roots[1].id, "Multiple root parts found")>>
                  ELSE <<>>
        issues == CircularDependencies(parts, 1,
                     [visited |-> {}, recursionStack |-> {}, result |-> FALSE,
                      issues |-> check1 \o check2 \o check3])
    IN  [isValid |-> \A i \in DOMAIN issues : issues[i].type # "error",
         issues |-> issues,
         rootParts |-> roots]

\* the part lists of n parts with ids 1..n in list order, each with parentId
\* null, the empty string, any id of the list or the id n + 1 of no part
PartLists(n) ==
    {[i \in 1..n |-> [id |-> i, parentId |-> f[i]]] :
        f \in [1..n -> EmptyString..(n + 1)]}

Validate ==
    /\ kin # Null
    /\ IsNull(Val(kin).result)
    /\ kin' = Some([Val(kin) EXCEPT !.result = Some(useKinematics(Val(kin).parts))])
    /\ UNCHANGED <<debugData, uiData, app, dir, pool, retry, arch, env, ev, atlas>>

\* a part list, before it is validated
InitKin ==
    /\ debugData = EmptyDebugData
    /\ uiData = Null
    /\ app = initialState
    /\ dir = <<>>
    /\ pool = PoolIdle
    /\ retry = <<>>
    /\ arch = <<>>
    /\ env = [units |-> 0, geos |-> 0, window |-> 0, director |-> 0, workers |-> 0,
              architect |-> 0, retries |-> 0, improves |-> 0, failures |-> 0]
    /\ ev = EvNone
    /\ atlas = Null
    /\ \E n \in 0..MaxKinParts : \E parts \in PartLists(n) :
          kin = Some([parts |-> parts, result |-> Null])

NextKin == Validate

SpecKin == InitKin /\ [][NextKin]_vars

(***************************************************************************)
(* The payload of a Discovery response.  callGemini returns                *)
(* `JSON.parse(fullText) as T`: the text is either empty, not JSON, or a  *)
(* JSON value, and the cast to T checks nothing.                           *)
(***************************************************************************)
\* required: [...] of the Discovery response schema (line 226)
ManifestFields ==
    {"id", "name", "visual_anchor", "bbox", "type_hint", "segmentation_strategy"}

\* the fields an entry of a JSON array may carry
ItemShapes == {ManifestFields, ManifestFields \ {"id"}, {}}

JsonArray(items) == [type |-> "array", items |-> items]
JsonOther(type) == [type |-> type, items |-> <<>>]

\* the JSON values a response text may denote
JsonValues ==
    {JsonArray(items) : items \in SeqsUpTo(ItemShapes, MaxItems)}
        \cup {JsonOther(type) : type \in {"object", "null", "string"}}

\* the texts the stream may add up to
Texts ==
    {[kind |-> "empty", value |-> JsonOther("null")],
     [kind |-> "garbage", value |-> JsonOther("null")]}
        \cup {[kind |-> "json", value |-> v] : v \in JsonValues}

\* the schema passed as responseSchema (lines 198-228): an array of objects
\* that carry every required field
MatchesSchema(v) ==
    /\ v.type = "array"
    /\ \A i \in DOMAIN v.items : ManifestFields \subseteq v.items[i]

\* callGemini (lines 129-143) inside runDirector, given the text received
DirectorAnswered(i, text) ==
    IF text.kind = "empty" THEN DirectorRejected(i, "NoResponse")
    ELSE IF text.kind = "garbage" THEN DirectorRejected(i, "Unparseable")
    ELSE DirectorFulfilled(i, text.value)

InitShape ==
    /\ Init
    /\ env.failures = MaxFailures

NextShape ==
    \/ Upload /\ UNCHANGED <<atlas, kin>>
    \/ HandleRunDirector /\ UNCHANGED <<atlas, kin>>
    \/ RetryDirector("conversational") /\ UNCHANGED <<atlas, kin>>
    \/ \E i \in DOMAIN dir : \E text \in Texts :
          DirectorAnswered(i, text) /\ UNCHANGED <<atlas, kin>>

SpecShape == InitShape /\ [][NextShape]_vars

(***************************************************************************)
(* scripts/testPacking.ts: packWithPotpack.                                *)
(*                                                                         *)
(* scale is the square root of a fraction, so the model carries scale      *)
(* squared as num / den, both natural numbers of any size (sequences of    *)
(* digits to the base Base, least significant first), and computes         *)
(* Math.ceil(src * scale) as the least n with n * n * den >= src * src *   *)
(* num.  The packer is one of two that return disjoint boxes inside the    *)
(* width and height they report.                                           *)
(***************************************************************************)
RECURSIVE BMulCarry(_, _, _)
\* the digits of a * k + carry
BMulCarry(a, k, carry) ==
    IF a = <<>>
    THEN IF carry = 0 THEN <<>>
         ELSE <<carry % Base>> \o BMulCarry(<<>>, k, carry \div Base)
    ELSE LET t == a[1] * k + carry
         IN  <<t % Base>> \o BMulCarry(Tail(a), k, t \div Base)

BMul(a, k) == BMulCarry(a, k, 0)
BOne == <<1>>

RECURSIVE BLeqFrom(_, _, _)
\* a <= b for digit sequences of one length, comparing from digit i down
BLeqFrom(a, b, i) ==
    IF i = 0 THEN TRUE
    ELSE IF a[i] # b[i] THEN a[i] < b[i]
    ELSE BLeqFrom(a, b, i - 1)

BLeq(a, b) ==
    IF Len(a) # Len(b) THEN Len(a) < Len(b) ELSE BLeqFrom(a, b, Len(a))

\* availableArea = (resolution - BOX_PADDING * 2) ** 2;
\* scale = Math.sqrt(availableArea / totalArea) * 0.90  (lines 16-19)
InitialScale(partsWithSize, resolution) ==
    LET target == resolution - BOX_PADDING * 2
        total == totalArea(partsWithSize)
    IN  [num |-> BMul(BMul(BMul(BOne, target), target), 81),
         den |-> BMul(BMul(BOne, total), 100)]

\* scale *= (target / maxDim) * 0.95  (lines 100-103)
ReduceScale(sc, resolution, maxDim) ==
    LET target == resolution - BOX_PADDING * 2
    IN  [num |-> BMul(BMul(BMul(sc.num, target), target), 361),
         den |-> BMul(BMul(BMul(sc.den, maxDim), maxDim), 400)]

RECURSIVE CeilSearch(_, _, _, _)
\* the least n in lo..hi with n >= src * scale
CeilSearch(src, sc, lo, hi) ==
    IF lo = hi THEN lo
    ELSE LET mid == (lo + hi) \div 2
         IN  IF BLeq(BMul(BMul(sc.num, src), src), BMul(BMul(sc.den, mid), mid))
             THEN CeilSearch(src, sc, lo, mid)
             ELSE CeilSearch(src, sc, mid + 1, hi)

\* Math.ceil(src * scale), for src > 0 and 0 < scale <= resolution
CeilScaled(src, sc, resolution) == CeilSearch(src, sc, 1, src * resolution)

RECURSIVE SumW(_, _)
SumW(boxes, n) == IF n = 0 THEN 0 ELSE SumW(boxes, n - 1) + boxes[n].w
RECURSIVE SumH(_, _)
SumH(boxes, n) == IF n = 0 THEN 0 ELSE SumH(boxes, n - 1) + boxes[n].h
RECURSIVE MaxW(_, _)
MaxW(boxes, n) == IF n = 0 THEN 0 ELSE Max(MaxW(boxes, n - 1), boxes[n].w)
RECURSIVE MaxH(_, _)
MaxH(boxes, n) == IF n = 0 THEN 0 ELSE Max(MaxH(boxes, n - 1), boxes[n].h)

Packers == {"row", "column"}

\* potpack(boxes): sets x and y of every box and returns the width and the
\* height of the container.  "row" puts the boxes side by side, "column" one
\* under the other
potpack(boxes, packer) ==
    IF packer = "row"
    THEN [w |-> SumW(boxes, Len(boxes)), h |-> MaxH(boxes, Len(boxes)),
          boxes |-> [i \in DOMAIN boxes |->
                        [x |-> SumW(boxes, i - 1), y |-> 0,
                         w |-> boxes[i].w, h |-> boxes[i].h]]]
    ELSE [w |-> MaxW(boxes, Len(boxes)), h |-> SumH(boxes, Len(boxes)),
          boxes |-> [i \in DOMAIN boxes |->
                        [x |-> 0, y |-> SumH(boxes, i - 1),
                         w |-> boxes[i].w, h |-> boxes[i].h]]]

RECURSIVE packWithPotpack_loop(_, _, _, _, _)
\* the retry loop (lines 26-104) from `attempt` on: the atlasRect of every
\* part afterwards, Null for a part that was given none
packWithPotpack_loop(partsWithSize, resolution, packer, sc, attempt) ==
    IF attempt >= PACK_ATTEMPTS
    THEN [i \in DOMAIN partsWithSize |-> Null]
    ELSE LET boxes == [i \in DOMAIN partsWithSize |->
                         [w |-> CeilScaled(partsWithSize[i].srcW, sc, resolution)
                                   + BOX_PADDING,
                          h |-> CeilScaled(partsWithSize[i].srcH, sc, resolution)
                                   + BOX_PADDING]]
             packed == potpack(boxes, packer)
         IN  IF /\ packed.w <= resolution - BOX_PADDING
                /\ packed.h <= resolution - BOX_PADDING
                /\ packed.w <= resolution - BOX_PADDING * 2
                /\ packed.h <= resolution - BOX_PADDING * 2
             THEN [i \in DOMAIN partsWithSize |->
                     Some(atlasRect(packed.boxes[i].x + BOX_PADDING,
                                    packed.boxes[i].y + BOX_PADDING,
                                    packed.boxes[i].w - BOX_PADDING,
                                    packed.boxes[i].h - BOX_PADDING))]
             ELSE packWithPotpack_loop(partsWithSize, resolution, packer,
                     ReduceScale(sc, resolution, Max(packed.w, packed.h)),
                     attempt + 1)

packWithPotpack(partsWithSize, resolution, packer) ==
    packWithPotpack_loop(partsWithSize, resolution, packer,
                         InitialScale(partsWithSize, resolution), 0)

\* the parts given to packWithPotpack
PartSizes == [srcW : 1..MaxPotDim, srcH : 1..MaxPotDim]

\* resolution: number.  1024 is the canvas of runTest
PotResolutions == {64, 1024}

\* packWithPotpack(parts, resolution), as runTest calls it (line 131)
runTest ==
    /\ atlas # Null
    /\ IsNull(Val(atlas).rects)
    /\ atlas' = Some([Val(atlas) EXCEPT !.rects =
                         Some(packWithPotpack(Val(atlas).parts, Val(atlas).resolution,
                                              Val(atlas).packer))])
    /\ UNCHANGED <<debugData, uiData, app, dir, pool, retry, arch, env, ev, kin>>

\* a non-empty part list, a canvas size and a packer, before the call
InitPot ==
    /\ debugData = EmptyDebugData
    /\ uiData = Null
    /\ app = initialState
    /\ dir = <<>>
    /\ pool = PoolIdle
    /\ retry = <<>>
    /\ arch = <<>>
    /\ env = [units |-> 0, geos |-> 0, window |-> 0, director |-> 0, workers |-> 0,
              architect |-> 0, retries |-> 0, improves |-> 0, failures |-> 0]
    /\ ev = EvNone
    /\ kin = Null
    /\ \E parts \in SeqsUpTo(PartSizes, MaxPotParts) \ {<<>>} :
       \E resolution \in PotResolutions :
       \E packer \in Packers :
          atlas = Some([parts |-> parts, resolution |-> resolution,
                        packer |-> packer, rects |-> Null])

NextPot == runTest

SpecPot == InitPot /\ [][NextPot]_vars

(***************************************************************************)
(* utils/visualizerUtils.ts: clampRel and clampBbox (utils/canvasUtils.ts  *)
(* has the same two functions).  A number is NaN or a multiple of          *)
(* 1 / ClampUnit, held as [nan, v] with v counting the multiples.          *)
(***************************************************************************)
NaN == [nan |-> TRUE, v |-> 0]
Num(v) == [nan |-> FALSE, v |-> v]

\* Math.min and Math.max: NaN if either argument is NaN
MathMin(a, b) == IF a.nan \/ b.nan THEN NaN ELSE IF a.v <= b.v THEN a ELSE b
MathMax(a, b) == IF a.nan \/ b.nan THEN NaN ELSE IF a.v >= b.v THEN a ELSE b

\* the two limits exchanged
clampRel_swapped(v) == MathMin(Num(0), MathMax(Num(ClampUnit), v))

\* clampRel = (v) => Math.max(0, Math.min(1, v))
clampRel(v) == MathMax(Num(0), MathMin(Num(ClampUnit), v))

\* clampBbox = (bbox) => [clampRel(bbox[0]), ..., clampRel(bbox[3])]
clampBbox(bbox) == [i \in 1..4 |-> clampRel(bbox[i])]

\* the numbers a bbox component is drawn from: NaN, and the multiples of
\* 1 / ClampUnit from -MaxClamp / ClampUnit to MaxClamp / ClampUnit
Numbers == {NaN} \cup {Num(v) : v \in -MaxClamp..MaxClamp}

\* clampBbox applied to the bbox, or to the result of the call before
ClampStep ==
    /\ atlas # Null
    /\ Len(Val(atlas).clamped) < 2
    /\ atlas' = Some([Val(atlas) EXCEPT !.clamped =
                  Append(@, clampBbox(IF @ = <<>> THEN Val(atlas).bbox
                                      ELSE @[Len(@)]))])
    /\ UNCHANGED <<debugData, uiData, app, dir, pool, retry, arch, env, ev, kin>>

\* a bbox, before it is clamped
InitClamp ==
    /\ debugData = EmptyDebugData
    /\ uiData = Null
    /\ app = initialState
    /\ dir = <<>>
    /\ pool = PoolIdle
    /\ retry = <<>>
    /\ arch = <<>>
    /\ env = [units |-> 0, geos |-> 0, window |-> 0, director |-> 0, workers |-> 0,
              architect |-> 0, retries |-> 0, improves |-> 0, failures |-> 0]
    /\ ev = EvNone
    /\ kin = Null
    /\ \E bbox \in [1..4 -> Numbers] : atlas = Some([bbox |-> bbox, clamped |-> <<>>])

SpecClamp == InitClamp /\ [][ClampStep]_vars

(***************************************************************************)
(* Claims                                                                  *)
(***************************************************************************)
StageFns == {"runDirectorOnly", "retryDirector", "runArchitectOnly", "retryArchitect"}

\* C1: when a stage-level invocation (runDirectorOnly, retryDirector,
\* runArchitectOnly, retryArchitect) fails because the call returns no
\* response or a malformed one, the record's discovery output, extraction
\* outputs, extraction errors and assembly output are what they were before
\* the invocation.
C1_FailedStageLeavesOutputs ==
    (ev.fn \in StageFns /\ ev.outcome = "rejected") => Outputs(debugData) = ev.pre

\* the runWorkersOnly invocation has just returned
StageCompleted == ev.fn = "runWorkersOnly" /\ ev.outcome = "fulfilled"

RejectedIn(results) == {j \in DOMAIN results : results[j].status = "rejected"}

\* the entries of workerOutputs that belong to unit id
EntriesOf(outs, id) == {x \in DOMAIN outs : outs[x].id = id}

\* C2: when runWorkersOnly completes on a manifest of N units of which exactly
\* one extraction failed, workerOutputs holds exactly one result for each of
\* the other N-1 units, equal to what that unit's extraction returned.
C2_SiblingsUnaffected ==
    (StageCompleted /\ Cardinality(RejectedIn(pool.workerResults)) = 1) =>
        /\ Len(debugData.workerOutputs) = Len(pool.manifests) - 1
        /\ \A j \in DOMAIN pool.workerResults :
              pool.workerResults[j].status = "fulfilled" =>
                 /\ Cardinality(EntriesOf(debugData.workerOutputs, pool.manifests[j])) = 1
                 /\ \A x \in EntriesOf(debugData.workerOutputs, pool.manifests[j]) :
                       debugData.workerOutputs[x] = Val(pool.workerResults[j].value)

\* a run of more than one batch has completed; the first unit failed, every
\* other unit has its result
C2_Witness ==
    /\ StageCompleted
    /\ Len(pool.manifests) > BATCH_SIZE
    /\ RejectedIn(pool.workerResults) = {1}
    /\ Len(debugData.workerOutputs) = Len(pool.manifests) - 1

\* the batch of the request at index j of the manifest (0-based)
BatchOf(j) == (j - 1) \div BATCH_SIZE

Settled(p) == p.status \in {"fulfilled", "rejected"}

\* C8: in runWorkersOnly no extraction request of batch i+1 is started until
\* every request of batch i has settled, by success or by failure.
C8_BatchBarrier ==
    \A i \in DOMAIN pool.workers : \A j \in DOMAIN pool.workers :
        (BatchOf(i) < BatchOf(j) /\ pool.workers[j].status # "notstarted")
            => Settled(pool.workers[i])

\* the second batch is in flight after a first batch in which a request
\* failed and the others succeeded
C8_Witness ==
    /\ pool.active
    /\ \E j \in DOMAIN pool.workers : BatchOf(j) = 1 /\ pool.workers[j].status = "pending"
    /\ \E i \in DOMAIN pool.workers : BatchOf(i) = 0 /\ pool.workers[i].status = "rejected"
    /\ \E i \in DOMAIN pool.workers : BatchOf(i) = 0 /\ pool.workers[i].status = "fulfilled"

RetryFns == {"retryWorker", "retryWorkerWithFeedback"}

\* the results and the error entries the record holds for unit id
OutputsOf(outs, id) == {outs[x] : x \in EntriesOf(outs, id)}
ErrorsOf(errs, id) == {errs[x] : x \in {y \in DOMAIN errs : errs[y].manifestId = id}}

\* C3: a step of a single-unit retry of unit k (retryWorker or
\* retryWorkerWithFeedback), whether the retry succeeds or fails, leaves the
\* workerOutputs entry and the workerErrors entry of every other unit
\* unchanged.
C3_RetryLeavesOthers ==
    [][ev'.fn \in RetryFns =>
          \A u \in UnitIds \ {ev'.unit} :
              /\ OutputsOf(debugData'.workerOutputs, u) = OutputsOf(debugData.workerOutputs, u)
              /\ ErrorsOf(debugData'.workerErrors, u) = ErrorsOf(debugData.workerErrors, u)]_vars

\* a conversational retry of unit 1 has succeeded while unit 2 has an error
\* entry and no result
C3_Witness ==
    /\ ev.fn = "retryWorkerWithFeedback"
    /\ ev.outcome = "fulfilled"
    /\ ev.unit = 1
    /\ ErrorsOf(debugData.workerErrors, 2) # {}
    /\ OutputsOf(debugData.workerOutputs, 1) # {}

\* C4: after a single-unit retry of unit k succeeds, in fresh mode or in
\* conversational mode, workerErrors contains no entry for k.
C4_SuccessClearsError ==
    (ev.fn \in RetryFns /\ ev.outcome = "fulfilled")
        => ErrorsOf(debugData.workerErrors, ev.unit) = {}

\* C5: every failed single-unit retry of unit k, in either mode, increases
\* the retryCount of k's error entry by exactly 1 and leaves an error entry
\* with a message for k in workerErrors.
C5_FailureCountsRetry ==
    [][(ev'.fn \in RetryFns /\ ev'.outcome = "rejected") =>
          LET k == ev'.unit
              before == FindError(debugData.workerErrors, k, 1)
              after == FindError(debugData'.workerErrors, k, 1)
          IN  /\ after >= 1
              /\ debugData'.workerErrors[after].error \in Failures
              /\ before >= 1 =>
                    debugData'.workerErrors[after].retryCount
                        = debugData.workerErrors[before].retryCount + 1]_vars

\* C6: after retryDirector succeeds, in fresh mode or in conversational mode,
\* directorOutput is the new manifest, workerOutputs and workerErrors are
\* empty and architectOutput is null.
C6_RetryDirectorInvalidates ==
    (ev.fn = "retryDirector" /\ ev.outcome = "fulfilled") =>
        /\ debugData.directorOutput = Some(ev.manifest)
        /\ debugData.workerOutputs = <<>>
        /\ debugData.workerErrors = <<>>
        /\ debugData.architectOutput = Null

\* a conversational retryDirector has succeeded on a record that held
\* extraction results and an assembly output
C6_Witness ==
    /\ ev.fn = "retryDirector"
    /\ ev.mode = "conversational"
    /\ ev.outcome = "fulfilled"
    /\ ev.pre.workerOutputs # <<>>
    /\ ev.pre.architectOutput # Null

\* C7: a step of retryArchitect, in either mode and whether it succeeds or
\* fails, leaves directorOutput, workerOutputs and workerErrors unchanged; on
\* success architectOutput is the only output it replaces, and otherwise
\* architectOutput is unchanged too.
C7_RetryArchitectFrame ==
    [][ev'.fn = "retryArchitect" =>
          /\ debugData'.directorOutput = debugData.directorOutput
          /\ debugData'.workerOutputs = debugData.workerOutputs
          /\ debugData'.workerErrors = debugData.workerErrors
          /\ ev'.outcome # "fulfilled" =>
                debugData'.architectOutput = debugData.architectOutput]_vars

\* a retryArchitect has succeeded and replaced the assembly output by a
\* different one, the record holding a manifest and extraction results
C7_Witness ==
    /\ ev.fn = "retryArchitect"
    /\ ev.outcome = "fulfilled"
    /\ debugData.architectOutput # ev.pre.architectOutput
    /\ debugData.workerOutputs # <<>>
    /\ ~IsNull(debugData.directorOutput)

\* a runWorkersOnly invocation begins; a single-unit retry begins
PoolStarts == pool'.active /\ ~pool.active
RetryStarts == \E k \in DOMAIN retry : IsNull(retry[k]) /\ ~IsNull(retry'[k])
\* an Assembly call begins
ArchitectStarts == Len(arch') > Len(arch)

\* C9: the pipeline never advances to the next stage while a call of the
\* current stage is outstanding: Assembly is never started while an
\* Extraction call (a batch worker or a single-unit retry) has not settled,
\* and Extraction is never started while a Discovery call has not settled.
C9_NoAdvanceWhileOutstanding ==
    [][/\ ArchitectStarts => (~pool.active /\ RetryingIds = {})
       /\ (PoolStarts \/ RetryStarts) => dir = <<>>]_vars

\* C10: Extraction starts only in a step of handleRunWorkers (the caller's
\* confirmation) taken when the Discovery output is displayed and no stage is
\* running; Assembly starts only in a step of handleRunArchitect taken when
\* the Extraction output is displayed and no stage is running, or in a
\* retryArchitect of an Assembly so confirmed before; hence no step in which
\* a stage completes starts a call of the next stage.
C10_NoAutoAdvance ==
    [][/\ PoolStarts =>
            /\ ev'.fn = "runWorkersOnly" /\ ev'.outcome = "started"
            /\ ~app.isAnalyzing
            /\ ~IsNull(uiData) /\ ~IsNull(Val(uiData).data.directorOutput)
       /\ ArchitectStarts =>
            /\ ev'.outcome = "started"
            /\ ~app.isAnalyzing
            /\ \/ /\ ev'.fn = "runArchitectOnly"
                  /\ ~IsNull(uiData) /\ Len(Val(uiData).data.workerOutputs) > 0
               \/ /\ ev'.fn = "retryArchitect"
                  /\ app.activeStep >= 4]_vars

\* Extraction has completed with results and no Assembly call has begun
C10_Witness ==
    /\ StageCompleted
    /\ debugData.workerOutputs # <<>>
    /\ app.activeStep = 3
    /\ ~app.isAnalyzing
    /\ arch = <<>>

\* the promise of the batch worker at index j, also once the run has returned
PromiseOf(P, j) == IF P.active THEN P.workers[j] ELSE P.workerResults[j]

\* the calls a runWorker invocation can still make: rounds turn..MAX_TURNS
\* of one critique and one refinement each
CallsLeft(w) ==
    IF w.phase = "gen" THEN 2 * (MAX_TURNS - w.turn) + 1
    ELSE 2 * (MAX_TURNS - w.turn) + 2

\* C11: whatever the critique verdicts, the refinement loop of runWorker ends
\* after at most MAX_TURNS = 3 rounds and returns a candidate, provided each
\* call returns: every answer to a call of an invocation either fails, or
\* returns a candidate of the unit, or leaves the invocation in a round
\* <= MAX_TURNS with strictly fewer calls left to make.
C11_LoopTerminates ==
    [][\A j \in DOMAIN pool.workers :
          (pool.active /\ pool.workers[j].status = "pending") =>
             LET w == Val(pool.workers[j].run)
                 q == PromiseOf(pool', j)
             IN  \/ q = pool.workers[j]
                 \/ q.status = "rejected"
                 \/ /\ q.status = "fulfilled"
                    /\ Val(q.value).id = w.unit
                 \/ /\ q.status = "pending"
                    /\ Val(q.run).turn <= MAX_TURNS
                    /\ CallsLeft(Val(q.run)) >= 1
                    /\ CallsLeft(Val(q.run)) < CallsLeft(w)]_vars

\* unit 1 was told IMPROVE in each of the MAX_TURNS rounds and has returned
\* its last candidate, while unit 2 still awaits its first answer
C11_Witness ==
    /\ pool.active
    /\ Len(pool.workers) = 2
    /\ pool.workers[1].status = "fulfilled"
    /\ pool.workers[2] = Pending(runWorker_start(2, "fresh", "handleDebugUpdate"))
    /\ env.improves = LoopImproves - MAX_TURNS
    /\ env.failures = MaxFailures


(***************************************************************************)
(* Packing                                                                 *)
(***************************************************************************)
Packed == atlas # Null /\ ~IsNull(Val(atlas).partsWithAtlasCoords)
AtlasRects == Val(Val(atlas).partsWithAtlasCoords)

Intersect(r, s) ==
    /\ r.x < s.x + s.w
    /\ s.x < r.x + r.w
    /\ r.y < s.y + s.h
    /\ s.y < r.y + r.h

WithinBounds(r, canvasSize) ==
    /\ r.x >= BOX_PADDING
    /\ r.y >= BOX_PADDING
    /\ r.x + r.w <= canvasSize - BOX_PADDING
    /\ r.y + r.h <= canvasSize - BOX_PADDING

\* C12: for any list of parts, either canvas size and each of the three
\* algorithms, no two of the resulting atlasRects intersect
C12_NoOverlap ==
    Packed => \A i, j \in DOMAIN AtlasRects :
                 i < j => ~Intersect(AtlasRects[i], AtlasRects[j])

\* C13: for any list of parts, either canvas size and each of the three
\* algorithms, every resulting atlasRect lies within
\* [padding, canvasSize - padding] on both axes
C13_WithinBounds ==
    Packed => \A i \in DOMAIN AtlasRects :
                 WithinBounds(AtlasRects[i], Val(atlas).resolution)

\* neither side of the part exceeds the other by more than half
SquareIsh(p) == 2 * Abs(p.srcW - p.srcH) <= Min(p.srcW, p.srcH)

\* C14: MaxRects packing of 3 square-ish parts into a 1024 canvas yields 3
\* atlasRects, pairwise non-overlapping and all within bounds
C14_ThreeSquares ==
    (/\ Packed
     /\ Val(atlas).algorithm = "maxrects"
     /\ Val(atlas).resolution = 1024
     /\ Len(Val(atlas).parts) = 3
     /\ \A p \in Range(calculatePartSizes(Val(atlas).parts)) : SquareIsh(p))
    => /\ Len(AtlasRects) = 3
       /\ \A i, j \in DOMAIN AtlasRects :
             i < j => ~Intersect(AtlasRects[i], AtlasRects[j])
       /\ \A i \in DOMAIN AtlasRects : WithinBounds(AtlasRects[i], 1024)


(***************************************************************************)
(* Hierarchy validation                                                    *)
(***************************************************************************)
Validated == kin # Null /\ ~IsNull(Val(kin).result)
KinParts == Val(kin).parts
KinIssues == Val(Val(kin).result).issues

\* the parentId of the part with this id, 0 if there is no such part
ParentOf(id) ==
    IF \E i \in DOMAIN KinParts : KinParts[i].id = id
    THEN (CHOOSE q \in Range(KinParts) : q.id = id).parentId
    ELSE 0

RECURSIVE Ancestor(_, _)
\* the part k parentId edges up from id, 0 if the edges end before
Ancestor(id, k) == IF k = 0 \/ id = 0 THEN id ELSE Ancestor(ParentOf(id), k - 1)

\* b is reached from a through one or more parentId edges
Reaches(a, b) == \E k \in 1..Len(KinParts) : Ancestor(a, k) = b
OnCycle(id) == id # 0 /\ Reaches(id, id)

CycleIssues ==
    {i \in DOMAIN KinIssues : KinIssues[i].message = "Circular dependency detected"}

\* C15: for every cycle of the parentId edges (a part that is its own parent
\* included) the validator reports an error issue naming a part on that cycle
C15_CycleReported ==
    Validated =>
        \A i \in DOMAIN KinParts :
            OnCycle(KinParts[i].id) =>
                \E k \in CycleIssues :
                    /\ KinIssues[k].type = "error"
                    /\ Reaches(KinParts[i].id, KinIssues[k].partId)
                    /\ Reaches(KinIssues[k].partId, KinParts[i].id)

\* a cycle of two parts with a third part hanging from it, validated
C15_Witness ==
    /\ Validated
    /\ Len(KinParts) = 3
    /\ KinParts[1].parentId = 0 /\ KinParts[2].parentId = 3 /\ KinParts[3].parentId = 2
    /\ \E k \in CycleIssues : KinIssues[k].partId = 3

\* C16: for a part list whose parentId edges contain no cycle (dangling parent
\* references and several roots included) the validator reports no
\* cycle-related issue
C16_NoFalseCycle ==
    (Validated /\ \A i \in DOMAIN KinParts : ~OnCycle(KinParts[i].id))
        => CycleIssues = {}

\* two roots, two parts under the first of them and a dangling reference
C16_Witness ==
    /\ Validated
    /\ Len(KinParts) = 4
    /\ KinParts[1].parentId = 0 /\ KinParts[2].parentId = 1
    /\ KinParts[3].parentId = 1 /\ KinParts[4].parentId = 5
    /\ Len(KinIssues) = 1
    /\ CycleIssues = {}


(***************************************************************************)
(* The record after Extraction                                             *)
(***************************************************************************)
\* runWorkersOnly has just returned
PoolCompleted == ev.fn = "runWorkersOnly" /\ ev.outcome = "fulfilled"

ErrorEntriesOf(errs, id) == {x \in DOMAIN errs : errs[x].manifestId = id}

\* C17: when runWorkersOnly completes, every unit id of its manifest is in
\* exactly one of workerOutputs and workerErrors, and neither list holds an id
\* that is not in the manifest
C17_Partition ==
    PoolCompleted =>
        /\ \A k \in Range(pool.manifests) :
              Cardinality(EntriesOf(debugData.workerOutputs, k))
                + Cardinality(ErrorEntriesOf(debugData.workerErrors, k)) = 1
        /\ \A x \in DOMAIN debugData.workerOutputs :
              debugData.workerOutputs[x].id \in Range(pool.manifests)
        /\ \A x \in DOMAIN debugData.workerErrors :
              debugData.workerErrors[x].manifestId \in Range(pool.manifests)


NoDuplicateIds(outs) == \A x, y \in DOMAIN outs : outs[x].id = outs[y].id => x = y

\* C18: a single-unit retry of unit k that succeeds leaves exactly one entry
\* with id k in workerOutputs, the returned result, in the place of the
\* previous entry for k or appended when there was none; workerOutputs never
\* holds two entries with the same id
C18_RetryStoresOnce ==
    [][/\ NoDuplicateIds(debugData'.workerOutputs)
       /\ (ev'.fn \in RetryFns /\ ev'.outcome = "fulfilled") =>
             LET k == ev'.unit
                 w == Val(retry[k])
                 old == debugData.workerOutputs
                 new == debugData'.workerOutputs
             IN  /\ Cardinality(EntriesOf(new, k)) = 1
                 /\ \E g \in Geos :
                       LET result == Geometry(k, g)
                       IN  /\ w.phase = "eval" => result = Val(w.geometry)
                           /\ new = IF EntriesOf(old, k) = {}
                                    THEN Append(old, result)
                                    ELSE [x \in DOMAIN old |->
                                            IF old[x].id = k THEN result ELSE old[x]]]_vars

\* a retry with feedback of unit 1 has put another geometry in the place of
\* unit 1's entry, before the entry of unit 2
C18_Witness ==
    /\ ev.fn = "retryWorkerWithFeedback"
    /\ ev.outcome = "fulfilled"
    /\ ev.unit = 1
    /\ debugData.workerOutputs = <<Geometry(1, 2), Geometry(2, 1)>>


(***************************************************************************)
(* The call log                                                            *)
(***************************************************************************)
\* the step e tells of is the arrival of the answer to one external call
CallAnswered(e) ==
    /\ e.outcome \in {"pending", "fulfilled", "rejected"}
    /\ ~(e.fn = "runWorkersOnly" /\ e.unit = 0)

\* C19: every external call appends exactly one entry to the call log,
\* whether it succeeds or fails
C19_OneEntryPerCall ==
    [][CallAnswered(ev') =>
          Len(debugData'.apiLogs) = Len(debugData.apiLogs) + 1]_vars

IsPrefix(s, t) == Len(s) <= Len(t) /\ SubSeq(t, 1, Len(s)) = s

\* the step e tells of starts the pipeline over: a new source image, or the
\* Discovery run that resets the record
StartsOver(e) ==
    \/ e.fn = "handleFileUpload"
    \/ e.fn = "runDirectorOnly" /\ e.outcome = "started"

\* C20: between two resets for a new source image the call log only grows:
\* every entry stays, unmodified and in the same order, across all stage runs
\* and retries
C20_LogOnlyGrows ==
    [][~StartsOver(ev') => IsPrefix(debugData.apiLogs, debugData'.apiLogs)]_vars


(***************************************************************************)
(* Snapshots                                                               *)
(***************************************************************************)
\* C21: a snapshot of the record handed to an observer does not change when
\* the record is mutated later: a step that hands App no snapshot leaves the
\* one App holds as it was
C21_SnapshotImmutable ==
    [][(~IsNull(uiData) /\ ~IsNull(uiData') /\ ~Val(uiData').handed)
          => Val(uiData').data = Val(uiData).data]_vars

\* C22: a response that is empty, does not parse, or parses but does not
\* match the shape the stage expects makes the call fail and writes no stage
\* output: the discovery output of the record is never a payload that does
\* not match the Discovery schema
C22_MalformedRejected ==
    IsNull(debugData.directorOutput) \/ MatchesSchema(Val(debugData.directorOutput))

\* the error issues of check 1 about this part
DanglingIssues(id) ==
    {k \in DOMAIN KinIssues :
        /\ KinIssues[k].type = "error"
        /\ KinIssues[k].partId = id
        /\ KinIssues[k].message = "Parent does not exist"}

\* no part of the list has this id
NamesNoPart(parentId) == \A j \in DOMAIN KinParts : KinParts[j].id # parentId

PotPacked == atlas # Null /\ ~IsNull(Val(atlas).rects)
PotRects == Val(Val(atlas).rects)

\* C24: for a non-empty list of parts with positive dimensions and a square
\* canvas, with a packer that returns disjoint boxes inside the width and
\* height it reports, packWithPotpack gives every part an atlasRect, every
\* atlasRect lies within [BOX_PADDING, resolution - BOX_PADDING] on both axes
\* and no two atlasRects overlap
C24_PotpackLayout ==
    PotPacked =>
        /\ \A i \in DOMAIN PotRects :
              /\ ~IsNull(PotRects[i])
              /\ WithinBounds(Val(PotRects[i]), Val(atlas).resolution)
        /\ \A i, j \in DOMAIN PotRects :
              (i < j /\ ~IsNull(PotRects[i]) /\ ~IsNull(PotRects[j]))
                  => ~Intersect(Val(PotRects[i]), Val(PotRects[j]))

(***************************************************************************)
(* clampBbox                                                               *)
(***************************************************************************)
InUnitRange(x) == ~x.nan /\ 0 <= x.v /\ x.v <= ClampUnit
Clamped == Val(atlas).clamped

\* C26: clampBbox returns a bbox equal to its argument when all four
\* components are in [0,1], and clampBbox applied to its own result returns
\* that result
C26_ClampNoOpIdempotent ==
    atlas # Null =>
        /\ (Len(Clamped) >= 1 /\ \A i \in 1..4 : InUnitRange(Val(atlas).bbox[i]))
              => Clamped[1] = Val(atlas).bbox
        /\ Len(Clamped) = 2 => Clamped[2] = Clamped[1]

\* a bbox with a component below 0, one above 1, one inside and one on the
\* limit, clamped twice
C26_Witness ==
    /\ atlas # Null
    /\ Len(Clamped) = 2
    /\ Val(atlas).bbox = <<Num(-1), Num(ClampUnit + 1), Num(1), Num(ClampUnit)>>
    /\ Clamped[1] = <<Num(0), Num(ClampUnit), Num(1), Num(ClampUnit)>>

\* C27: one runWorker invocation makes at most MAX_TURNS = 3
\* candidate-generation calls (and as many critique calls): the generation
\* call an invocation awaits is its first, second or third.  The call awaited
\* in phase "gen" of turn t is generation call t + 1 of the invocation.
C27_ThreeGenerations ==
    \A j \in DOMAIN pool.workers :
        (pool.active /\ pool.workers[j].status = "pending"
            /\ Val(pool.workers[j].run).phase = "gen")
            => Val(pool.workers[j].run).turn + 1 <= MAX_TURNS

\* C28: every circular-dependency issue names a part that reaches itself
\* through parentId edges: a part that is on no cycle gets no such issue
C28_OnlyCycleParts ==
    Validated => \A k \in CycleIssues : OnCycle(KinIssues[k].partId)

\* the ids of the current discovery output
ManifestIds ==
    IF IsNull(debugData.directorOutput) THEN {}
    ELSE Range(Val(debugData.directorOutput))

\* C29: at every moment each entry of workerOutputs and of workerErrors has
\* an id of the current directorOutput, also when Discovery completes anew
\* while Extraction calls for the manifest before are outstanding
C29_EntriesOfCurrentManifest ==
    /\ \A i \in DOMAIN debugData.workerOutputs :
          debugData.workerOutputs[i].id \in ManifestIds
    /\ \A i \in DOMAIN debugData.workerErrors :
          debugData.workerErrors[i].manifestId \in ManifestIds

\* the requests of the batch run that are in flight
InFlight(P) == {j \in DOMAIN P.workers : P.workers[j].status = "pending"}

\* C30: during runWorkersOnly at most BATCH_SIZE = 8 unit extractions are in
\* flight at any time and every unit of the manifest is dispatched exactly
\* once: no step leaves more than 8 requests pending, no step starts a
\* request anew for a unit that was dispatched before, and when the
\* invocation ends there is one settled result for each unit
C30_BoundedDispatchOnce ==
    [][/\ Cardinality(InFlight(pool')) <= BATCH_SIZE
       /\ (pool.active /\ pool'.active) =>
             \A j \in DOMAIN pool.workers :
                (pool.workers[j].status # "notstarted"
                    /\ pool'.workers[j] # pool.workers[j])
                   => /\ pool.workers[j].status = "pending"
                      /\ pool'.workers[j] #
                            Pending(runWorker_start(pool.manifests[j], "fresh",
                                                    "handleDebugUpdate"))
       /\ (pool.active /\ ~pool'.active) =>
             /\ Len(pool'.workerResults) = Len(pool.manifests)
             /\ \A j \in DOMAIN pool'.workerResults : Settled(pool'.workerResults[j])]_vars

\* a manifest of BATCH_SIZE + 1 units: the first batch of 8 has settled and
\* the ninth unit, alone in the second batch, is in flight
C30_Witness ==
    /\ pool.active
    /\ Len(pool.manifests) = BATCH_SIZE + 1
    /\ InFlight(pool) = {BATCH_SIZE + 1}
    /\ \A j \in 1..BATCH_SIZE : Settled(pool.workers[j])

=============================================================================
